---- MODULE Spec2Model ----
(***************************************************************************)
(* A model of the vespa-go YQL query builder: the value formatter, the     *)
(* expression nodes (WhereCondition implementers) and their ToYQL          *)
(* renderers, the rank collector and the query builder with its validator. *)
(*                                                                         *)
(* Texts are TLA+ strings, built with \o exactly as the code builds them   *)
(* with fmt.Sprintf and strings.Join.  Expression nodes live in a heap (a  *)
(* sequence of node records); a WhereCondition is a reference into it, and *)
(* NIL is the nil interface value.                                         *)
(***************************************************************************)
EXTENDS Integers, Sequences, FiniteSets, TLC

VARIABLES
    heap,   \* the expression nodes allocated so far, in allocation order
    call,   \* the last constructor / combinator call: its name, arguments, result
    out,    \* the last ToYQL call on an expression: its receiver and outcome
    qb,     \* the QueryBuilderImpl
    ranks,  \* the RankExpressionImpl collectors allocated so far
    res     \* the last Build / BuildYQL call and what it returned

vars == <<heap, call, out, qb, ranks, res>>

NIL == 0

-----------------------------------------------------------------------------
(* Operator and ContainsType constants (types.go)                          *)

EQ == "="
NEQ == "!="
GT == ">"
GTE == ">="
LT == "<"
LTE == "<="
\* IN in the source (a reserved word here)
OP_IN == "in"
NOT_IN == "not in"
CONTAINS == "contains"
NOT_CONTAINS == "not contains"
MATCHES == "matches"

ExactMatch == "exact"
PhraseMatch == "phrase"
FuzzyMatch == "fuzzy"

-----------------------------------------------------------------------------
(* Values of type interface{}.  A float is held in tenths (FloatV(5) is    *)
(* 0.5); NamedV is a value of a defined string type (such as Operator or   *)
(* ContainsType), which a type switch on `string` does not match.          *)

NilV == [k |-> "nil"]
StrV(s) == [k |-> "string", s |-> s]
IntV(n) == [k |-> "int", n |-> n]
FloatV(t) == [k |-> "float", t |-> t]
BoolV(b) == [k |-> "bool", b |-> b]
NamedV(s) == [k |-> "named", s |-> s]
SliceV(l) == [k |-> "slice", l |-> l]
StrSliceV(l) == [k |-> "strslice", l |-> l]

-----------------------------------------------------------------------------
(* Text helpers: what fmt's verbs and the strings package do.              *)

Digit(d) == SubSeq("0123456789", d + 1, d + 1)

RECURSIVE NatToStr(_)
NatToStr(n) == IF n < 10 THEN Digit(n) ELSE NatToStr(n \div 10) \o Digit(n % 10)

\* %d and %v of an integer
IntToStr(n) == IF n < 0 THEN "-" \o NatToStr(0 - n) ELSE NatToStr(n)

Abs(n) == IF n < 0 THEN 0 - n ELSE n

\* %v of a float64 (shortest decimal form: 10.0 is "10", 0.5 is "0.5")
FloatToStr(t) ==
    (IF t < 0 THEN "-" ELSE "") \o NatToStr(Abs(t) \div 10)
        \o (IF Abs(t) % 10 = 0 THEN "" ELSE "." \o Digit(Abs(t) % 10))

\* %f of a float64 (always six decimals: 0.8 is "0.800000")
FloatToStrF(t) ==
    (IF t < 0 THEN "-" ELSE "") \o NatToStr(Abs(t) \div 10)
        \o "." \o Digit(Abs(t) % 10) \o "00000"

\* %t of a bool
BoolToStr(b) == IF b THEN "true" ELSE "false"

\* strings.Join(parts, sep)
RECURSIVE Join(_, _)
Join(parts, sep) ==
    IF Len(parts) = 0 THEN ""
    ELSE IF Len(parts) = 1 THEN parts[1]
    ELSE parts[1] \o sep \o Join(Tail(parts), sep)

\* strings.HasPrefix(s, prefix)
HasPrefix(s, prefix) ==
    Len(s) >= Len(prefix) /\ SubSeq(s, 1, Len(prefix)) = prefix

\* the number of positions of s at which sub occurs
StrCount(s, sub) ==
    Cardinality({i \in 1..Len(s) : i + Len(sub) - 1 <= Len(s)
                                   /\ SubSeq(s, i, i + Len(sub) - 1) = sub})

StrContains(s, sub) == StrCount(s, sub) > 0

-----------------------------------------------------------------------------
(* The value formatter (formatValue, formatInValues, escapeString).        *)

\* escapeString escaping the backslash as well
RECURSIVE escapeString_Backslash(_)
escapeString_Backslash(s) ==
    IF Len(s) = 0 THEN ""
    ELSE (IF SubSeq(s, 1, 1) = "'" THEN "\\'"
          ELSE IF SubSeq(s, 1, 1) = "\\" THEN "\\\\"
          ELSE SubSeq(s, 1, 1))
            \o escapeString_Backslash(SubSeq(s, 2, Len(s)))

\* strings.ReplaceAll(s, "'", "\\'")
RECURSIVE escapeString(_)
escapeString(s) ==
    IF Len(s) = 0 THEN ""
    ELSE (IF SubSeq(s, 1, 1) = "'" THEN "\\'" ELSE SubSeq(s, 1, 1))
            \o escapeString(SubSeq(s, 2, Len(s)))

\* fmt's %v of a value the type switch of formatValue does not name
RECURSIVE Sprint(_)
Sprint(v) ==
    CASE v.k = "nil" -> "<nil>"
      [] v.k = "string" -> v.s
      [] v.k = "named" -> v.s
      [] v.k = "int" -> IntToStr(v.n)
      [] v.k = "float" -> FloatToStr(v.t)
      [] v.k = "bool" -> BoolToStr(v.b)
      [] v.k = "slice" ->
            "[" \o Join([i \in 1..Len(v.l) |-> Sprint(v.l[i])], " ") \o "]"
      [] v.k = "strslice" -> "[" \o Join(v.l, " ") \o "]"

formatValue(value) ==
    IF value.k = "nil" THEN "null"
    ELSE CASE value.k = "string" -> "'" \o escapeString(value.s) \o "'"
           [] value.k = "int" -> IntToStr(value.n)
           [] value.k = "float" -> FloatToStr(value.t)
           [] value.k = "bool" -> BoolToStr(value.b)
           [] OTHER -> "'" \o Sprint(value) \o "'"

formatInValues(value) ==
    IF value.k \notin {"slice", "strslice"}
    THEN "(" \o formatValue(value) \o ")"
    ELSE LET elem(i) == IF value.k = "strslice" THEN StrV(value.l[i]) ELSE value.l[i]
         IN "(" \o Join([i \in 1..Len(value.l) |-> formatValue(elem(i))], ", ") \o ")"

-----------------------------------------------------------------------------
(* Expression nodes and their constructors.  A constructor takes the heap  *)
(* and returns the heap after its allocations together with the reference  *)
(* it returns.                                                             *)

Alloc(h, node) == [heap |-> Append(h, node), ret |-> Len(h) + 1]

Field(name) == [field |-> name]

FieldCondition(field, operator, value, containsType) ==
    [kind |-> "FieldCondition", Field |-> field, Operator |-> operator,
     Value |-> value, ContainsType |-> containsType]

Eq(h, f, value) == Alloc(h, FieldCondition(f.field, EQ, value, ""))
NotEq(h, f, value) == Alloc(h, FieldCondition(f.field, NEQ, value, ""))
Gt(h, f, value) == Alloc(h, FieldCondition(f.field, GT, value, ""))
Gte(h, f, value) == Alloc(h, FieldCondition(f.field, GTE, value, ""))
Lt(h, f, value) == Alloc(h, FieldCondition(f.field, LT, value, ""))
Lte(h, f, value) == Alloc(h, FieldCondition(f.field, LTE, value, ""))
In(h, f, values) == Alloc(h, FieldCondition(f.field, OP_IN, SliceV(values), ""))
NotIn(h, f, values) == Alloc(h, FieldCondition(f.field, NOT_IN, SliceV(values), ""))
NotContains(h, f, value) ==
    Alloc(h, FieldCondition(f.field, NOT_CONTAINS, StrV(value), ""))
Matches(h, f, pattern) == Alloc(h, FieldCondition(f.field, MATCHES, StrV(pattern), ""))

\* ContainsOption closures, named by their constructor
WithExactMatching(config) == [config EXCEPT !.Type = ExactMatch]
WithPhraseMatching(config) == [config EXCEPT !.Type = PhraseMatch]
WithFuzzyMatching(config) == [config EXCEPT !.Type = FuzzyMatch]

ContainsOptions == {"WithExactMatching", "WithPhraseMatching", "WithFuzzyMatching"}

ApplyContainsOption(opt, config) ==
    CASE opt = "WithExactMatching" -> WithExactMatching(config)
      [] opt = "WithPhraseMatching" -> WithPhraseMatching(config)
      [] opt = "WithFuzzyMatching" -> WithFuzzyMatching(config)

RECURSIVE ApplyContainsOptions(_, _)
ApplyContainsOptions(opts, config) ==
    IF Len(opts) = 0 THEN config
    ELSE ApplyContainsOptions(Tail(opts), ApplyContainsOption(Head(opts), config))

FieldBuilder_Contains(h, f, value, opts) ==
    LET config == ApplyContainsOptions(opts, [Type |-> ExactMatch])
    IN Alloc(h, FieldCondition(f.field, CONTAINS, value, config.Type))

Between(h, f, min, max) ==
    Alloc(h, [kind |-> "RangeCondition", Field |-> f.field, Min |-> min, Max |-> max])

\* NearestNeighborOption closures: [opt |-> constructor name, arg |-> its argument].
\* A *float64 or *bool is <<>> when nil and <<v>> when it points to v.
WithLabel(label, config) == [config EXCEPT !.Label = label]
WithThreshold(threshold, config) == [config EXCEPT !.DistanceThreshold = <<threshold>>]
WithApproximate(approximate, config) == [config EXCEPT !.Approximate = <<approximate>>]

ApplyNearestNeighborOption(o, config) ==
    CASE o.opt = "WithLabel" -> WithLabel(o.arg, config)
      [] o.opt = "WithThreshold" -> WithThreshold(o.arg, config)
      [] o.opt = "WithApproximate" -> WithApproximate(o.arg, config)

RECURSIVE ApplyNearestNeighborOptions(_, _)
ApplyNearestNeighborOptions(opts, config) ==
    IF Len(opts) = 0 THEN config
    ELSE ApplyNearestNeighborOptions(Tail(opts),
                                     ApplyNearestNeighborOption(Head(opts), config))

FieldBuilder_NearestNeighbor(h, f, queryVector, targetHits, opts) ==
    LET config == ApplyNearestNeighborOptions(opts,
                      [Label |-> "", DistanceThreshold |-> <<>>, Approximate |-> <<>>])
    IN Alloc(h, [kind |-> "NearestNeighbor", Field |-> f.field,
                 QueryVector |-> queryVector, TargetHits |-> targetHits,
                 Label |-> config.Label,
                 DistanceThreshold |-> config.DistanceThreshold,
                 Approximate |-> config.Approximate])

ContainsSameElement(h, f, conditions) ==
    Alloc(h, [kind |-> "SameElementCondition", Field |-> f.field,
              Conditions |-> conditions])

\* UserQuery(defaultIndex ...string): only the first argument is read
UserQuery(h, defaultIndex) ==
    LET index == IF Len(defaultIndex) > 0 THEN defaultIndex[1] ELSE ""
    IN Alloc(h, [kind |-> "UserQueryFeature", DefaultIndex |-> index])

Custom(h, expression) ==
    Alloc(h, [kind |-> "CustomFeature", Expression |-> expression])

\* Not moving its argument to a new cell and negating the old cell in place
Not_InPlace(h, condition) ==
    IF condition = NIL THEN Alloc(h, [kind |-> "NotCondition", Condition |-> condition])
    ELSE [heap |-> [Append(h, h[condition]) EXCEPT
                       ![condition] = [kind |-> "NotCondition", Condition |-> Len(h) + 1]],
          ret |-> condition]

Not(h, condition) ==
    Alloc(h, [kind |-> "NotCondition", Condition |-> condition])

\* FoldBoolean with the operands of each new node exchanged
RECURSIVE FoldBoolean_Swapped(_, _, _, _, _)
FoldBoolean_Swapped(h, result, conditions, i, operator) ==
    IF i > Len(conditions) THEN [heap |-> h, ret |-> result]
    ELSE LET a == Alloc(h, [kind |-> "BooleanCondition", Left |-> conditions[i],
                            Right |-> result, Operator |-> operator])
         IN FoldBoolean_Swapped(a.heap, a.ret, conditions, i + 1, operator)

\* the loop of And / Or: result := conditions[0]; for i := 1 .. len-1 { result = &BooleanCondition{...} }
RECURSIVE FoldBoolean(_, _, _, _, _)
FoldBoolean(h, result, conditions, i, operator) ==
    IF i > Len(conditions) THEN [heap |-> h, ret |-> result]
    ELSE LET a == Alloc(h, [kind |-> "BooleanCondition", Left |-> result,
                            Right |-> conditions[i], Operator |-> operator])
         IN FoldBoolean(a.heap, a.ret, conditions, i + 1, operator)

And(h, conditions) ==
    IF Len(conditions) = 0 THEN [heap |-> h, ret |-> NIL]
    ELSE IF Len(conditions) = 1 THEN [heap |-> h, ret |-> conditions[1]]
    ELSE FoldBoolean(h, conditions[1], conditions, 2, "AND")

Or(h, conditions) ==
    IF Len(conditions) = 0 THEN [heap |-> h, ret |-> NIL]
    ELSE IF Len(conditions) = 1 THEN [heap |-> h, ret |-> conditions[1]]
    ELSE FoldBoolean(h, conditions[1], conditions, 2, "OR")

\* the And / Or methods of each node type; the receiver is a reference
UserQueryFeature_And(h, uq, condition) == And(h, <<uq, condition>>)
UserQueryFeature_Or(h, uq, condition) == Or(h, <<uq, condition>>)
FieldCondition_And(h, fc, condition) == And(h, <<fc, condition>>)
FieldCondition_Or(h, fc, condition) == Or(h, <<fc, condition>>)
BooleanCondition_And(h, bc, condition) == And(h, <<bc, condition>>)
BooleanCondition_Or(h, bc, condition) == Or(h, <<bc, condition>>)
RangeCondition_And(h, rc, condition) == And(h, <<rc, condition>>)
RangeCondition_Or(h, rc, condition) == Or(h, <<rc, condition>>)
NearestNeighbor_And(h, nn, condition) == And(h, <<nn, condition>>)
NearestNeighbor_Or(h, nn, condition) == Or(h, <<nn, condition>>)
\* NotCondition.And with the receiver passed second
NotCondition_And_Swapped(h, nc, condition) == And(h, <<condition, nc>>)
NotCondition_And(h, nc, condition) == And(h, <<nc, condition>>)
NotCondition_Or(h, nc, condition) == Or(h, <<nc, condition>>)
SameElementCondition_And(h, se, condition) == And(h, <<se, condition>>)
SameElementCondition_Or(h, se, condition) == Or(h, <<se, condition>>)
CustomFeature_And(h, cf, condition) == And(h, <<cf, condition>>)
CustomFeature_Or(h, cf, condition) == Or(h, <<cf, condition>>)

\* x.And(condition) / x.Or(condition) through the WhereCondition interface
WhereCondition_And(h, x, condition) ==
    CASE h[x].kind = "UserQueryFeature" -> UserQueryFeature_And(h, x, condition)
      [] h[x].kind = "FieldCondition" -> FieldCondition_And(h, x, condition)
      [] h[x].kind = "BooleanCondition" -> BooleanCondition_And(h, x, condition)
      [] h[x].kind = "RangeCondition" -> RangeCondition_And(h, x, condition)
      [] h[x].kind = "NearestNeighbor" -> NearestNeighbor_And(h, x, condition)
      [] h[x].kind = "NotCondition" -> NotCondition_And(h, x, condition)
      [] h[x].kind = "SameElementCondition" -> SameElementCondition_And(h, x, condition)
      [] h[x].kind = "CustomFeature" -> CustomFeature_And(h, x, condition)

\* x.Or allocating the new parent before a copy of its receiver
WhereCondition_Or_Forward(h, x, condition) ==
    [heap |-> h \o <<[kind |-> "BooleanCondition", Left |-> Len(h) + 2,
                      Right |-> condition, Operator |-> "OR"], h[x]>>,
     ret |-> Len(h) + 1]

WhereCondition_Or(h, x, condition) ==
    CASE h[x].kind = "UserQueryFeature" -> UserQueryFeature_Or(h, x, condition)
      [] h[x].kind = "FieldCondition" -> FieldCondition_Or(h, x, condition)
      [] h[x].kind = "BooleanCondition" -> BooleanCondition_Or(h, x, condition)
      [] h[x].kind = "RangeCondition" -> RangeCondition_Or(h, x, condition)
      [] h[x].kind = "NearestNeighbor" -> NearestNeighbor_Or(h, x, condition)
      [] h[x].kind = "NotCondition" -> NotCondition_Or(h, x, condition)
      [] h[x].kind = "SameElementCondition" -> SameElementCondition_Or(h, x, condition)
      [] h[x].kind = "CustomFeature" -> CustomFeature_Or(h, x, condition)

-----------------------------------------------------------------------------
(* Rendering: one ToYQL per node type, dispatched on the node's kind as    *)
(* the interface call dispatches on its dynamic type.                      *)

RECURSIVE ToYQL(_, _)

UserQueryFeature_ToYQL(uq) ==
    IF uq.DefaultIndex # ""
    THEN "{defaultIndex:\"" \o uq.DefaultIndex \o "\"}userQuery()"
    ELSE "userQuery()"

\* the PhraseMatch case quoting the keywords without escaping them
PhraseToYQL_Unescaped(fc) ==
    IF fc.Value.k = "strslice"
    THEN LET quotedKeywords == [i \in 1..Len(fc.Value.l) |-> "'" \o fc.Value.l[i] \o "'"]
         IN "(" \o fc.Field \o " contains phrase(" \o Join(quotedKeywords, ", ") \o "))"
    ELSE IF fc.Value.k = "string"
    THEN "(" \o fc.Field \o " contains phrase(" \o formatValue(fc.Value) \o "))"
    ELSE "(" \o fc.Field \o " contains " \o formatValue(fc.Value) \o ")"

\* the PhraseMatch case of FieldCondition.ToYQL
PhraseToYQL(fc) ==
    IF fc.Value.k = "strslice"
    THEN LET quotedKeywords ==
                 [i \in 1..Len(fc.Value.l) |-> "'" \o escapeString(fc.Value.l[i]) \o "'"]
         IN "(" \o fc.Field \o " contains phrase(" \o Join(quotedKeywords, ", ") \o "))"
    ELSE IF fc.Value.k = "string"
    THEN "(" \o fc.Field \o " contains phrase(" \o formatValue(fc.Value) \o "))"
    ELSE "(" \o fc.Field \o " contains " \o formatValue(fc.Value) \o ")"

\* the EQ case without the test for a string value
EqToYQL_NoStringCase(fc) == "(" \o fc.Field \o " = " \o formatValue(fc.Value) \o ")"

\* the EQ case of FieldCondition.ToYQL
EqToYQL(fc) ==
    IF fc.Value.k = "string"
    THEN "(" \o fc.Field \o " contains " \o formatValue(fc.Value) \o ")"
    ELSE "(" \o fc.Field \o " = " \o formatValue(fc.Value) \o ")"

\* the NEQ case of FieldCondition.ToYQL
NeqToYQL(fc) ==
    IF fc.Value.k = "string"
    THEN "!(" \o fc.Field \o " contains " \o formatValue(fc.Value) \o ")"
    ELSE "(" \o fc.Field \o " != " \o formatValue(fc.Value) \o ")"

FieldCondition_ToYQL(fc) ==
    CASE fc.Operator = EQ -> EqToYQL(fc)
      [] fc.Operator = NEQ -> NeqToYQL(fc)
      [] fc.Operator = GT -> "(" \o fc.Field \o " > " \o formatValue(fc.Value) \o ")"
      [] fc.Operator = GTE -> "(" \o fc.Field \o " >= " \o formatValue(fc.Value) \o ")"
      [] fc.Operator = LT -> "(" \o fc.Field \o " < " \o formatValue(fc.Value) \o ")"
      [] fc.Operator = LTE -> "(" \o fc.Field \o " <= " \o formatValue(fc.Value) \o ")"
      [] fc.Operator = OP_IN ->
            "(" \o fc.Field \o " in " \o formatInValues(fc.Value) \o ")"
      [] fc.Operator = NOT_IN ->
            "(" \o fc.Field \o " not in " \o formatInValues(fc.Value) \o ")"
      [] fc.Operator = CONTAINS ->
            CASE fc.ContainsType = ExactMatch ->
                    "(" \o fc.Field \o " contains " \o formatValue(fc.Value) \o ")"
              [] fc.ContainsType = PhraseMatch -> PhraseToYQL(fc)
              [] fc.ContainsType = FuzzyMatch ->
                    "(" \o fc.Field \o " contains fuzzy(" \o formatValue(fc.Value) \o "))"
              [] OTHER ->
                    "(" \o fc.Field \o " contains " \o formatValue(fc.Value) \o ")"
      [] fc.Operator = NOT_CONTAINS ->
            "(" \o fc.Field \o " not contains " \o formatValue(fc.Value) \o ")"
      [] fc.Operator = MATCHES ->
            "(" \o fc.Field \o " matches " \o formatValue(fc.Value) \o ")"
      [] OTHER -> ""

\* BooleanCondition.ToYQL without the closing parenthesis
BooleanCondition_ToYQL_Unclosed(h, bc) ==
    "(" \o ToYQL(h, bc.Left) \o " " \o bc.Operator \o " " \o ToYQL(h, bc.Right)

BooleanCondition_ToYQL(h, bc) ==
    "(" \o ToYQL(h, bc.Left) \o " " \o bc.Operator \o " " \o ToYQL(h, bc.Right) \o ")"

\* RangeCondition.ToYQL joining with the keyword of BooleanCondition
RangeCondition_ToYQL_Upper(rc) ==
    LET minCondition == "(" \o rc.Field \o " >= " \o formatValue(rc.Min) \o ")"
        maxCondition == "(" \o rc.Field \o " <= " \o formatValue(rc.Max) \o ")"
    IN "(" \o minCondition \o " AND " \o maxCondition \o ")"

RangeCondition_ToYQL(rc) ==
    LET minCondition == "(" \o rc.Field \o " >= " \o formatValue(rc.Min) \o ")"
        maxCondition == "(" \o rc.Field \o " <= " \o formatValue(rc.Max) \o ")"
    IN "(" \o minCondition \o " and " \o maxCondition \o ")"

\* NearestNeighbor.ToYQL appending approximate before distanceThreshold
NearestNeighbor_ToYQL_Reordered(nn) ==
    LET p1 == <<"targetHits:" \o IntToStr(nn.TargetHits)>>
        p2 == IF nn.Label # "" THEN Append(p1, "label:'" \o nn.Label \o "'") ELSE p1
        p3 == IF nn.Approximate # <<>>
              THEN Append(p2, "approximate:" \o BoolToStr(nn.Approximate[1]))
              ELSE p2
        params == IF nn.DistanceThreshold # <<>>
                  THEN Append(p3, "distanceThreshold:" \o FloatToStrF(nn.DistanceThreshold[1]))
                  ELSE p3
    IN "({" \o Join(params, ",") \o "}nearestNeighbor(" \o nn.Field \o ", "
           \o nn.QueryVector \o "))"

NearestNeighbor_ToYQL(nn) ==
    LET p1 == <<"targetHits:" \o IntToStr(nn.TargetHits)>>
        p2 == IF nn.Label # "" THEN Append(p1, "label:'" \o nn.Label \o "'") ELSE p1
        p3 == IF nn.DistanceThreshold # <<>>
              THEN Append(p2, "distanceThreshold:" \o FloatToStrF(nn.DistanceThreshold[1]))
              ELSE p2
        params == IF nn.Approximate # <<>>
                  THEN Append(p3, "approximate:" \o BoolToStr(nn.Approximate[1]))
                  ELSE p3
        paramString == Join(params, ",")
    IN "({" \o paramString \o "}nearestNeighbor(" \o nn.Field \o ", "
           \o nn.QueryVector \o "))"

\* NotCondition.ToYQL dropping a double negation
NotCondition_ToYQL_Collapsed(h, nc) ==
    IF nc.Condition # NIL /\ h[nc.Condition].kind = "NotCondition"
    THEN ToYQL(h, h[nc.Condition].Condition)
    ELSE "!(" \o ToYQL(h, nc.Condition) \o ")"

NotCondition_ToYQL(h, nc) == "!(" \o ToYQL(h, nc.Condition) \o ")"

\* the loop without the test for an empty rendering
RECURSIVE NonEmptyYQL_KeepAll(_, _)
NonEmptyYQL_KeepAll(h, conditions) ==
    IF Len(conditions) = 0 THEN <<>>
    ELSE <<ToYQL(h, Head(conditions))>> \o NonEmptyYQL_KeepAll(h, Tail(conditions))

\* the loop that keeps the non-empty renderings, in order
RECURSIVE NonEmptyYQL(_, _)
NonEmptyYQL(h, conditions) ==
    IF Len(conditions) = 0 THEN <<>>
    ELSE LET yql == ToYQL(h, Head(conditions))
         IN (IF yql # "" THEN <<yql>> ELSE <<>>) \o NonEmptyYQL(h, Tail(conditions))

SameElementCondition_ToYQL(h, se) ==
    IF Len(se.Conditions) = 0 THEN ""
    ELSE LET conditionStrings == NonEmptyYQL(h, se.Conditions)
         IN IF Len(conditionStrings) = 0 THEN ""
            ELSE "(" \o se.Field \o " contains sameElement("
                     \o Join(conditionStrings, ", ") \o "))"

CustomFeature_ToYQL(cf) == cf.Expression

ToYQL(h, r) ==
    LET n == h[r]
    IN CASE n.kind = "FieldCondition" -> FieldCondition_ToYQL(n)
         [] n.kind = "BooleanCondition" -> BooleanCondition_ToYQL(h, n)
         [] n.kind = "RangeCondition" -> RangeCondition_ToYQL(n)
         [] n.kind = "NearestNeighbor" -> NearestNeighbor_ToYQL(n)
         [] n.kind = "NotCondition" -> NotCondition_ToYQL(h, n)
         [] n.kind = "SameElementCondition" -> SameElementCondition_ToYQL(h, n)
         [] n.kind = "UserQueryFeature" -> UserQueryFeature_ToYQL(n)
         [] n.kind = "CustomFeature" -> CustomFeature_ToYQL(n)

\* Calling ToYQL through a nil WhereCondition is a nil-pointer dereference:
\* Panics(h, r) tells whether rendering r reaches such a call.
RECURSIVE Panics(_, _)
Panics(h, r) ==
    IF r = NIL THEN TRUE
    ELSE LET n == h[r]
         IN CASE n.kind = "BooleanCondition" -> Panics(h, n.Left) \/ Panics(h, n.Right)
              [] n.kind = "NotCondition" -> Panics(h, n.Condition)
              [] n.kind = "SameElementCondition" ->
                    \E i \in 1..Len(n.Conditions) : Panics(h, n.Conditions[i])
              [] OTHER -> FALSE

-----------------------------------------------------------------------------
(* The rank collector (RankExpressionImpl).  A collector is a record       *)
(* holding its conditions; a RankExpression is a reference into `ranks`.   *)

\* NewRank()
NewRank == [conditions |-> <<>>]

\* AddCondition appending to a copy of the collector that is then dropped
AddCondition_Lost(rs, r, condition) == rs

\* r.AddCondition(condition): the collectors after the call (it returns r)
AddCondition(rs, r, condition) ==
    [rs EXCEPT ![r].conditions = Append(@, condition)]

\* RankText without the test for no surviving rendering
RankText_NoGuard(expressions) ==
    "rank(" \o Join(expressions, ", ") \o ")"

\* the text RankExpressionImpl.ToYQL returns for the non-empty renderings
RankText(expressions) ==
    IF Len(expressions) = 0 THEN ""
    ELSE "rank(" \o Join(expressions, ", ") \o ")"

RankExpressionImpl_ToYQL(h, r) ==
    IF Len(r.conditions) = 0 THEN ""
    ELSE RankText(NonEmptyYQL(h, r.conditions))

-----------------------------------------------------------------------------
(* The query builder (QueryBuilderImpl).  A map is a function on its keys; *)
(* an error is <<>> when nil and <<e>> otherwise, and so is a *VespaQuery. *)

EmptyMap == [k \in {} |-> NilV]

\* NewQueryBuilder()
NewQueryBuilder ==
    [selectFields |-> <<>>, sources |-> <<>>, whereConditions |-> <<>>,
     rankExpression |-> NIL, ranking |-> "", hits |-> 0, offset |-> 0,
     defaultIndex |-> "", inputParams |-> EmptyMap, query |-> ""]

Select(b, fields) == [b EXCEPT !.selectFields = @ \o fields]
From(b, sources) == [b EXCEPT !.sources = @ \o sources]
\* Where keeping the last condition only
Where_Overwrite(b, condition) == [b EXCEPT !.whereConditions = <<condition>>]
Where(b, condition) == [b EXCEPT !.whereConditions = Append(@, condition)]
Rank(b, rankExpression) == [b EXCEPT !.rankExpression = rankExpression]
WithRanking(b, profile) == [b EXCEPT !.ranking = profile]
WithHits(b, hits) == [b EXCEPT !.hits = hits]
WithOffset(b, offset) == [b EXCEPT !.offset = offset]
WithDefaultIndex(b, index) == [b EXCEPT !.defaultIndex = index]
\* WithInput starting a new map for each call
WithInput_Fresh(b, key, value) ==
    [b EXCEPT !.inputParams = [k \in {key} |-> value]]

WithInput(b, key, value) ==
    [b EXCEPT !.inputParams =
        [k \in (DOMAIN @) \cup {key} |-> IF k = key THEN value ELSE @[k]]]
WithQuery(b, query) == [b EXCEPT !.query = query]

buildSelectClause(b) ==
    IF Len(b.selectFields) = 0 THEN "select *"
    ELSE "select " \o Join(b.selectFields, ", ")

\* buildFromClause separating the sources with a space only
buildFromClause_Spaces(b) ==
    IF Len(b.sources) = 0 THEN "from sources *"
    ELSE "from sources " \o Join(b.sources, " ")

buildFromClause(b) ==
    IF Len(b.sources) = 0 THEN "from sources *"
    ELSE "from sources " \o Join(b.sources, ", ")

\* `conditions` with yql appended if it is not empty
AppendNonEmpty(conditions, yql) ==
    IF yql # "" THEN Append(conditions, yql) ELSE conditions

\* JoinConditions joining with the keyword of the boolean combinators
JoinConditions_UpperAnd(conditions) ==
    IF Len(conditions) = 0 THEN "" ELSE Join(conditions, " AND ")

\* the end of buildWhereClause, once the conditions are collected
JoinConditions(conditions) ==
    IF Len(conditions) = 0 THEN "" ELSE Join(conditions, " and ")

\* buildWhereClause collecting the rank expression before the where conditions
buildWhereClause_RankFirst(b, h, rs) ==
    IF b.rankExpression # NIL
    THEN JoinConditions(AppendNonEmpty(<<>>, RankExpressionImpl_ToYQL(h, rs[b.rankExpression]))
                           \o NonEmptyYQL(h, b.whereConditions))
    ELSE JoinConditions(NonEmptyYQL(h, b.whereConditions))

buildWhereClause(b, h, rs) ==
    IF b.rankExpression # NIL
    THEN JoinConditions(AppendNonEmpty(NonEmptyYQL(h, b.whereConditions),
                           RankExpressionImpl_ToYQL(h, rs[b.rankExpression])))
    ELSE JoinConditions(NonEmptyYQL(h, b.whereConditions))

\* buildWhereClause calls ToYQL on every where condition and, through the rank
\* expression, on every rank condition: whether one of these calls panics
WherePanics(b, h, rs) ==
    \/ \E i \in 1..Len(b.whereConditions) : Panics(h, b.whereConditions[i])
    \/ /\ b.rankExpression # NIL
       /\ \E i \in 1..Len(rs[b.rankExpression].conditions) :
             Panics(h, rs[b.rankExpression].conditions[i])

ValidationError(field, message) == [Field |-> field, Message |-> message]

\* validate() with its two checks in the other order
validate_InputFirst(b) ==
    LET bad == {key \in DOMAIN b.inputParams : ~HasPrefix(key, "input.query(")}
    IN IF bad # {}
       THEN {<<ValidationError("input", "input parameter key '" \o key
                        \o "' should start with 'input.query('")>> : key \in bad}
       ELSE IF Len(b.sources) = 0
       THEN {<<ValidationError("sources", "at least one source must be specified")>>}
       ELSE {<<>>}

\* validate() without the check of the input-parameter keys
validate_SourcesOnly(b) ==
    IF Len(b.sources) = 0
    THEN {<<ValidationError("sources", "at least one source must be specified")>>}
    ELSE {<<>>}

\* The errors validate() can return.  The keys of the map are visited in an
\* unspecified order, so each key that lacks the prefix can be the one reported.
validate(b) ==
    IF Len(b.sources) = 0
    THEN {<<ValidationError("sources", "at least one source must be specified")>>}
    ELSE LET bad == {key \in DOMAIN b.inputParams : ~HasPrefix(key, "input.query(")}
         IN IF bad = {} THEN {<<>>}
            ELSE {<<ValidationError("input", "input parameter key '" \o key
                        \o "' should start with 'input.query('")>> : key \in bad}

\* the parts BuildYQL joins, given the three clauses
yqlParts(selectClause, fromClause, whereClause) ==
    IF whereClause # ""
    THEN <<selectClause, fromClause, "where", whereClause>>
    ELSE <<selectClause, fromClause, "where", "true">>

\* BuildYQL() once validate() has returned err
BuildYQL(b, h, rs, err) ==
    IF err # <<>> THEN [panic |-> FALSE, yql |-> "", err |-> err]
    ELSE IF WherePanics(b, h, rs) THEN [panic |-> TRUE, yql |-> "", err |-> <<>>]
    ELSE [panic |-> FALSE, err |-> <<>>,
          yql |-> Join(yqlParts(buildSelectClause(b), buildFromClause(b),
                                buildWhereClause(b, h, rs)), " ")]

\* VespaQuery without the copy of the offset
VespaQuery_NoOffset(b, yql) ==
    [YQL |-> yql, Ranking |-> b.ranking,
     Hits |-> IF b.hits > 0 THEN b.hits ELSE 0,
     Offset |-> 0,
     DefaultIndex |-> b.defaultIndex, Input |-> b.inputParams, Query |-> b.query]

\* the VespaQuery Build() fills in from yql and the builder's settings
VespaQuery(b, yql) ==
    [YQL |-> yql,
     Ranking |-> IF b.ranking # "" THEN b.ranking ELSE "",
     Hits |-> IF b.hits > 0 THEN b.hits ELSE 0,
     Offset |-> IF b.offset > 0 THEN b.offset ELSE 0,
     DefaultIndex |-> IF b.defaultIndex # "" THEN b.defaultIndex ELSE "",
     Input |-> IF Cardinality(DOMAIN b.inputParams) > 0
               THEN [k \in DOMAIN b.inputParams |-> b.inputParams[k]]
               ELSE EmptyMap,
     Query |-> IF b.query # "" THEN b.query ELSE ""]

\* BuildQuery returning the record filled in so far along with the error
BuildQuery_Partial(b, y) ==
    IF y.panic THEN [panic |-> TRUE, query |-> <<>>, err |-> <<>>]
    ELSE [panic |-> FALSE, query |-> <<VespaQuery(b, y.yql)>>, err |-> y.err]

\* the end of Build(), once BuildYQL() has returned y
BuildQuery(b, y) ==
    IF y.err # <<>> THEN [panic |-> FALSE, query |-> <<>>, err |-> y.err]
    ELSE IF y.panic THEN [panic |-> TRUE, query |-> <<>>, err |-> <<>>]
    ELSE [panic |-> FALSE, query |-> <<VespaQuery(b, y.yql)>>, err |-> <<>>]

\* Build() once validate() has returned err
Build(b, h, rs, err) == BuildQuery(b, BuildYQL(b, h, rs, err))

-----------------------------------------------------------------------------
(* The state after construction, and the calls on expressions.             *)

SeqsUpTo(S, n) == UNION {[1..m -> S] : m \in 0..n}

NoCall == [op |-> "none"]
NoOut == [op |-> "none"]
\* `res` is what the caller holds of the builder's terminal operations: the
\* outcome of the last Build / BuildYQL call made since the last setter call,
\* in `earlier` the Field of the error the terminal call before that returned
\* ("" when it returned no error or was never made), and in `again` whether
\* the call was made right after another terminal call, with no setter between
NoRes == [op |-> "none", earlier |-> ""]

\* A constructor or combinator call `op` with inputs `in` returned r.  `call`
\* remembers it (base is the heap's length when it was made), and `out`, the
\* outcome of the last ToYQL call made since, starts afresh.
Returned(op, in, r) ==
    /\ heap' = r.heap
    /\ call' = [op |-> op, in |-> in, base |-> Len(heap), ret |-> r.ret]
    /\ out' = NoOut
    /\ UNCHANGED <<qb, ranks, res>>

Refs == 1..Len(heap)
RefsOrNil == 0..Len(heap)

DoEq(F, V) == \E f \in F, v \in V :
    Returned("Eq", [field |-> f, value |-> v], Eq(heap, Field(f), v))
DoNotEq(F, V) == \E f \in F, v \in V :
    Returned("NotEq", [field |-> f, value |-> v], NotEq(heap, Field(f), v))
DoGt(F, V) == \E f \in F, v \in V :
    Returned("Gt", [field |-> f, value |-> v], Gt(heap, Field(f), v))
DoGte(F, V) == \E f \in F, v \in V :
    Returned("Gte", [field |-> f, value |-> v], Gte(heap, Field(f), v))
DoLt(F, V) == \E f \in F, v \in V :
    Returned("Lt", [field |-> f, value |-> v], Lt(heap, Field(f), v))
DoLte(F, V) == \E f \in F, v \in V :
    Returned("Lte", [field |-> f, value |-> v], Lte(heap, Field(f), v))
DoIn(F, L) == \E f \in F, vs \in L :
    Returned("In", [field |-> f, values |-> vs], In(heap, Field(f), vs))
DoNotIn(F, L) == \E f \in F, vs \in L :
    Returned("NotIn", [field |-> f, values |-> vs], NotIn(heap, Field(f), vs))
DoContains(F, V, O) == \E f \in F, v \in V, opts \in O :
    Returned("Contains", [field |-> f, value |-> v, opts |-> opts],
             FieldBuilder_Contains(heap, Field(f), v, opts))
DoNotContains(F, S) == \E f \in F, s \in S :
    Returned("NotContains", [field |-> f, value |-> s], NotContains(heap, Field(f), s))
DoMatches(F, S) == \E f \in F, s \in S :
    Returned("Matches", [field |-> f, value |-> s], Matches(heap, Field(f), s))
DoBetween(F, V) == \E f \in F, min \in V, max \in V :
    Returned("Between", [field |-> f, min |-> min, max |-> max],
             Between(heap, Field(f), min, max))
DoNearestNeighbor(F, Q, T, O) == \E f \in F, q \in Q, t \in T, opts \in O :
    Returned("NearestNeighbor",
             [field |-> f, queryVector |-> q, targetHits |-> t, opts |-> opts],
             FieldBuilder_NearestNeighbor(heap, Field(f), q, t, opts))
DoUserQuery(D) == \E d \in D :
    Returned("UserQuery", [defaultIndex |-> d], UserQuery(heap, d))
DoCustom(S) == \E s \in S :
    Returned("Custom", [expression |-> s], Custom(heap, s))

DoNot == \E c \in RefsOrNil :
    Returned("Not", [condition |-> c], Not(heap, c))
DoContainsSameElement(F, n) == \E f \in F, cs \in SeqsUpTo(RefsOrNil, n) :
    Returned("ContainsSameElement", [field |-> f, conditions |-> cs],
             ContainsSameElement(heap, Field(f), cs))
DoAnd(n) == \E cs \in SeqsUpTo(RefsOrNil, n) :
    Returned("And", [conditions |-> cs], And(heap, cs))
DoOr(n) == \E cs \in SeqsUpTo(RefsOrNil, n) :
    Returned("Or", [conditions |-> cs], Or(heap, cs))

DoMethodAnd == \E x \in Refs, c \in RefsOrNil :
    Returned("x.And", [recv |-> x, condition |-> c], WhereCondition_And(heap, x, c))
DoMethodOr == \E x \in Refs, c \in RefsOrNil :
    Returned("x.Or", [recv |-> x, condition |-> c], WhereCondition_Or(heap, x, c))

\* the result of the last call, if there was one
LastRet == IF call.op = "none" THEN {} ELSE {call.ret}

\* x.ToYQL() on an expression x drawn from R (a nil x is a nil-pointer dereference)
DoToYQL(R) == \E r \in R :
    /\ out' = [op |-> "ToYQL", ref |-> r, panic |-> Panics(heap, r),
               yql |-> IF Panics(heap, r) THEN "" ELSE ToYQL(heap, r)]
    /\ UNCHANGED <<heap, call, qb, ranks, res>>

-----------------------------------------------------------------------------
(* The calls on the rank collector and on the query builder.               *)

\* the Field of the error the last terminal call returned
Failure(r) ==
    IF r.op = "none" THEN r.earlier
    ELSE IF r.err # <<>> THEN r.err[1].Field ELSE ""

\* the builder the setters are called on
Receiver == "qb"

\* A setter call `op` with inputs `in` returned the builder, now b.
Set(op, in, b) ==
    /\ qb' = b
    /\ call' = [op |-> op, in |-> in, ret |-> Receiver]
    /\ res' = [op |-> "none", earlier |-> Failure(res)]
    /\ UNCHANGED <<heap, out, ranks>>

DoSelect(F) == \E fields \in F : Set("Select", [fields |-> fields], Select(qb, fields))
DoFrom(S) == \E sources \in S : Set("From", [sources |-> sources], From(qb, sources))
DoWhere(R) == \E condition \in R :
    Set("Where", [condition |-> condition], Where(qb, condition))
DoRank == \E rankExpression \in 0..Len(ranks) :
    Set("Rank", [rankExpression |-> rankExpression], Rank(qb, rankExpression))
DoWithRanking(P) == \E profile \in P :
    Set("WithRanking", [profile |-> profile], WithRanking(qb, profile))
DoWithHits(N) == \E hits \in N : Set("WithHits", [hits |-> hits], WithHits(qb, hits))
DoWithOffset(N) == \E offset \in N :
    Set("WithOffset", [offset |-> offset], WithOffset(qb, offset))
DoWithDefaultIndex(I) == \E index \in I :
    Set("WithDefaultIndex", [index |-> index], WithDefaultIndex(qb, index))
DoWithInput(K, V) == \E key \in K, value \in V :
    Set("WithInput", [key |-> key, value |-> value], WithInput(qb, key, value))
DoWithQuery(Q) == \E query \in Q :
    Set("WithQuery", [query |-> query], WithQuery(qb, query))

DoNewRank ==
    /\ ranks' = Append(ranks, NewRank)
    /\ call' = [op |-> "NewRank", in |-> <<>>, ret |-> Len(ranks) + 1]
    /\ res' = [op |-> "none", earlier |-> Failure(res)]
    /\ out' = NoOut
    /\ UNCHANGED <<heap, qb>>

DoAddCondition(n, R) == \E r \in 1..Len(ranks), condition \in R :
    /\ Len(ranks[r].conditions) < n
    /\ ranks' = AddCondition(ranks, r, condition)
    /\ call' = [op |-> "AddCondition", in |-> [recv |-> r, condition |-> condition],
                ret |-> r]
    /\ res' = [op |-> "none", earlier |-> Failure(res)]
    /\ out' = NoOut
    /\ UNCHANGED <<heap, qb>>

\* whether r.ToYQL() on a rank collector panics: it calls ToYQL on every entry
RankPanics(h, r) == \E i \in 1..Len(r.conditions) : Panics(h, r.conditions[i])

\* r.ToYQL() on a rank collector r
DoRankToYQL == \E r \in 1..Len(ranks) :
    /\ out' = [op |-> "RankExpression.ToYQL", ref |-> r,
               panic |-> RankPanics(heap, ranks[r]),
               yql |-> IF RankPanics(heap, ranks[r]) THEN ""
                       ELSE RankExpressionImpl_ToYQL(heap, ranks[r])]
    /\ UNCHANGED <<heap, call, qb, ranks, res>>

\* BuildYQL emptying the where conditions it has rendered
AfterBuildYQL_Drained(b) == [b EXCEPT !.whereConditions = <<>>]

\* the builder after BuildYQL(): validate and the build* helpers only read it
AfterBuildYQL(b) == b

\* qb.BuildYQL(): validate() returns one of the errors it can return
DoBuildYQL == \E err \in validate(qb) :
    /\ res' = [op |-> "BuildYQL", earlier |-> Failure(res),
               again |-> res.op # "none"]
                   @@ BuildYQL(qb, heap, ranks, err)
    /\ qb' = AfterBuildYQL(qb)
    /\ UNCHANGED <<heap, call, out, ranks>>

\* qb.Build()
DoBuild == \E err \in validate(qb) :
    /\ res' = [op |-> "Build", earlier |-> Failure(res),
               again |-> res.op # "none"]
                   @@ Build(qb, heap, ranks, err)
    /\ qb' = AfterBuildYQL(qb)
    /\ UNCHANGED <<heap, call, out, ranks>>

\* formatValue(value) is called
DoFormatValue(V) == \E value \in V :
    /\ call' = [op |-> "formatValue", in |-> [value |-> value],
                ret |-> formatValue(value)]
    /\ out' = NoOut
    /\ UNCHANGED <<heap, qb, ranks, res>>

\* escapeString(s) is called
DoEscapeString(S) == \E s \in S :
    /\ call' = [op |-> "escapeString", in |-> [s |-> s], ret |-> escapeString(s)]
    /\ out' = NoOut
    /\ UNCHANGED <<heap, qb, ranks, res>>

\* escapeString is called on what the last escapeString call returned
DoEscapeAgain ==
    /\ call.op = "escapeString"
    /\ out' = [op |-> "escapeString", in |-> [s |-> call.ret],
               ret |-> escapeString(call.ret)]
    /\ UNCHANGED <<heap, call, qb, ranks, res>>

-----------------------------------------------------------------------------
(* SpecLeaf: one leaf is built by a FieldBuilder constructor, UserQuery or *)
(* Custom from drawn inputs, and then rendered.                            *)

MaxOpts == 2

LeafFields == {"price", "brand"}
LeafStrings == {"nike", "it's", "'", ""}
LeafValues ==
    {NilV, IntV(10), IntV(-3), IntV(0), FloatV(1000), FloatV(45), FloatV(-5),
     BoolV(TRUE), BoolV(FALSE), NamedV("exact"), NamedV("o'k"),
     SliceV(<<StrV("a"), IntV(1)>>), StrSliceV(<<"nike", "ai'r">>), StrSliceV(<<>>)}
        \cup {StrV(s) : s \in LeafStrings}
LeafLists ==
    {<<>>, <<StrV("it's")>>, <<StrV("a"), StrV("b")>>, <<IntV(1), FloatV(25), NilV>>,
     <<BoolV(TRUE), NamedV("o'k")>>}
NearestNeighborOptions ==
    {[opt |-> "WithLabel", arg |-> "main"], [opt |-> "WithLabel", arg |-> ""],
     [opt |-> "WithThreshold", arg |-> 8], [opt |-> "WithThreshold", arg |-> 0],
     [opt |-> "WithApproximate", arg |-> TRUE],
     [opt |-> "WithApproximate", arg |-> FALSE]}

LeafRangeValues == {IntV(10), FloatV(1000), StrV("it's"), NilV}
LeafIndexes == {<<>>, <<"title">>, <<"">>, <<"title", "body">>}
LeafCustoms == {"", "freshness(timestamp)"}

\* no expression has been built yet
Fresh == heap = <<>>

\* the heap has room for another call's allocations
Room(n) == Len(heap) < n

InitExpr ==
    /\ heap = <<>>
    /\ call = NoCall
    /\ out = NoOut
    /\ qb = NewQueryBuilder
    /\ ranks = <<>>
    /\ res = NoRes

NextLeaf ==
    \/ Fresh /\ DoEq(LeafFields, LeafValues)
    \/ Fresh /\ DoNotEq(LeafFields, LeafValues)
    \/ Fresh /\ DoGt(LeafFields, LeafValues)
    \/ Fresh /\ DoGte(LeafFields, LeafValues)
    \/ Fresh /\ DoLt(LeafFields, LeafValues)
    \/ Fresh /\ DoLte(LeafFields, LeafValues)
    \/ Fresh /\ DoIn(LeafFields, LeafLists)
    \/ Fresh /\ DoNotIn(LeafFields, LeafLists)
    \/ Fresh
         /\ DoContains(LeafFields, LeafValues, SeqsUpTo(ContainsOptions, MaxOpts))
    \/ Fresh /\ DoNotContains(LeafFields, LeafStrings)
    \/ Fresh /\ DoMatches(LeafFields, LeafStrings)
    \/ Fresh /\ DoBetween(LeafFields, LeafRangeValues)
    \/ Fresh
         /\ DoNearestNeighbor({"embedding"}, {"query_vector"}, {1000, 0, -1},
                              SeqsUpTo(NearestNeighborOptions, MaxOpts + 1))
    \/ Fresh /\ DoUserQuery(LeafIndexes)
    \/ Fresh /\ DoCustom(LeafCustoms)
    \/ DoToYQL(RefsOrNil)

SpecLeaf == InitExpr /\ [][NextLeaf]_vars

-----------------------------------------------------------------------------
(* SpecRange: Field(f).Gte(min), Field(f).Lte(max) and                     *)
(* Field(f).Between(min, max) have been built for drawn f, min, max; they  *)
(* are combined by one call of And and rendered.                           *)

MaxArgs == 3

RangeFields == {"price", "t"}
RangeValues == {IntV(10), FloatV(1005), StrV("it's")}

RangePool(f, min, max) ==
    Between(Lte(Gte(<<>>, Field(f), min).heap, Field(f), max).heap,
            Field(f), min, max).heap

InitRange ==
    /\ heap \in {RangePool(f, min, max) :
                    f \in RangeFields, min \in RangeValues, max \in RangeValues}
    /\ call = NoCall
    /\ out = NoOut
    /\ qb = NewQueryBuilder
    /\ ranks = <<>>
    /\ res = NoRes

NextRange ==
    \/ call = NoCall /\ DoAnd(MaxArgs)
    \/ DoToYQL(RefsOrNil)

SpecRange == InitRange /\ [][NextRange]_vars

-----------------------------------------------------------------------------
(* SpecAndOr: the free functions And and Or are called, with up to MaxArgs *)
(* arguments (nil among them), on a few expressions built before, and the  *)
(* result is rendered.                                                     *)

MaxAndOrHeap == 4

PoolCustom == Custom(Custom(Custom(<<>>, "A").heap, "B").heap, "C").heap
PoolMixed ==
    UserQuery(Between(Eq(<<>>, Field("brand"), StrV("nike")).heap,
                      Field("price"), IntV(10), IntV(100)).heap, <<>>).heap

InitAndOr ==
    /\ heap \in {PoolCustom, PoolMixed}
    /\ call = NoCall
    /\ out = NoOut
    /\ qb = NewQueryBuilder
    /\ ranks = <<>>
    /\ res = NoRes

NextAndOr ==
    \/ Room(MaxAndOrHeap) /\ DoAnd(MaxArgs)
    \/ Room(MaxAndOrHeap) /\ DoOr(MaxArgs)
    \/ DoToYQL(LastRet)

SpecAndOr == InitAndOr /\ [][NextAndOr]_vars

-----------------------------------------------------------------------------
(* SpecMethod: the And / Or methods are called on expressions of every     *)
(* node type, chained, and the result is rendered.                         *)

MaxMethodHeap == 5

PoolVector ==
    Custom(Custom(FieldBuilder_NearestNeighbor(<<>>, Field("embedding"), "query_vector",
                                               10, <<>>).heap, "A").heap, "").heap
PoolNested ==
    LET h1 == Custom(<<>>, "A").heap
        h2 == Not(h1, 1).heap
    IN ContainsSameElement(h2, Field("sizes"), <<1>>).heap

InitMethod ==
    /\ heap \in {PoolMixed, PoolVector, PoolNested}
    /\ call = NoCall
    /\ out = NoOut
    /\ qb = NewQueryBuilder
    /\ ranks = <<>>
    /\ res = NoRes

NextMethod ==
    \/ Room(MaxMethodHeap) /\ DoMethodAnd
    \/ Room(MaxMethodHeap) /\ DoMethodOr
    \/ DoToYQL(LastRet)

SpecMethod == InitMethod /\ [][NextMethod]_vars

-----------------------------------------------------------------------------
(* SpecSame: ContainsSameElement is called once with up to MaxArgs         *)
(* sub-expressions (nil, empty-rendering ones and other sameElement nodes  *)
(* among them), and the result is rendered.                                *)

PoolSame ==
    LET h1 == FieldBuilder_Contains(<<>>, Field("family"), StrV("clothing"), <<>>).heap
        h2 == Custom(h1, "").heap
        h3 == ContainsSameElement(h2, Field("none"), <<>>).heap
    IN ContainsSameElement(h3, Field("tags"), <<2, 1>>).heap

SameFields == {"sizes"}

InitSame ==
    /\ heap = PoolSame
    /\ call = NoCall
    /\ out = NoOut
    /\ qb = NewQueryBuilder
    /\ ranks = <<>>
    /\ res = NoRes

NextSame ==
    \/ call = NoCall /\ DoContainsSameElement(SameFields, MaxArgs)
    \/ DoToYQL(LastRet)

SpecSame == InitSame /\ [][NextSame]_vars

-----------------------------------------------------------------------------
(* SpecValidate: sources, input parameters, a where condition and a        *)
(* ranking profile are accumulated in any order, and the builder is built  *)
(* at any point.                                                           *)

MaxSources == 2
MaxValidateWhere == 1

ValidateSources == {<<>>, <<"products">>, <<"articles", "blogs">>}
ValidateKeys == {"input.query(q)", "invalid_key", "input.query"}
ValidateValues == {IntV(1)}
ValidateProfiles == {"bm25"}

InitValidate ==
    /\ heap = Custom(<<>>, "myfeature").heap
    /\ call = NoCall
    /\ out = NoOut
    /\ qb = NewQueryBuilder
    /\ ranks = <<>>
    /\ res = NoRes

NextValidate ==
    \/ Len(qb.sources) < MaxSources /\ DoFrom(ValidateSources)
    \/ DoWithInput(ValidateKeys, ValidateValues)
    \/ Len(qb.whereConditions) < MaxValidateWhere /\ DoWhere(RefsOrNil)
    \/ qb.ranking = "" /\ DoWithRanking(ValidateProfiles)
    \/ DoBuildYQL
    \/ DoBuild

SpecValidate == InitValidate /\ [][NextValidate]_vars

-----------------------------------------------------------------------------
(* Spec: a query is assembled from expressions built beforehand (one of    *)
(* them rendering to the empty string) and from one rank collector, and    *)
(* built at any point.                                                     *)

MaxWhere == 2
MaxRankConditions == 2

PoolWhere ==
    LET h1 == Eq(<<>>, Field("brand"), StrV("nike")).heap
        h2 == Custom(h1, "").heap
    IN Custom(h2, "closeness(field, embedding)").heap

SelectFields == {<<"id", "title">>}
Sources == {<<"products">>}

Init ==
    /\ heap = PoolWhere
    /\ call = NoCall
    /\ out = NoOut
    /\ qb = NewQueryBuilder
    /\ ranks = <<>>
    /\ res = NoRes

Next ==
    \/ qb.selectFields = <<>> /\ DoSelect(SelectFields)
    \/ qb.sources = <<>> /\ DoFrom(Sources)
    \/ Len(qb.whereConditions) < MaxWhere /\ DoWhere(Refs)
    \/ ranks = <<>> /\ DoNewRank
    \/ DoAddCondition(MaxRankConditions, Refs)
    \/ DoRank
    \/ DoBuildYQL
    \/ DoBuild

Spec == Init /\ [][Next]_vars

-----------------------------------------------------------------------------
(* Properties of the expression constructors and renderers.                *)

\* the call that was made last is `op`, and its result has been rendered since
Rendered(op) == call.op = op /\ out.op = "ToYQL" /\ out.ref = call.ret

\* the text of the left-associative fold of texts[1..k] under keyword
RECURSIVE LeftFoldText(_, _, _)
LeftFoldText(texts, k, keyword) ==
    IF k = 1 THEN texts[1]
    ELSE "(" \o LeftFoldText(texts, k - 1, keyword) \o " " \o keyword \o " "
             \o texts[k] \o ")"

BooleanNode(left, right, operator) ==
    [kind |-> "BooleanCondition", Left |-> left, Right |-> right, Operator |-> operator]

C2_MethodIsFreeFunction ==
    call.op \in {"x.And", "x.Or"} =>
        LET x == call.in.recv
            y == call.in.condition
            keyword == IF call.op = "x.And" THEN "AND" ELSE "OR"
            before == SubSeq(heap, 1, call.base)
            free == IF call.op = "x.And" THEN And(before, <<x, y>>)
                    ELSE Or(before, <<x, y>>)
        IN /\ heap = Append(before, BooleanNode(x, y, keyword))
           /\ call.ret = Len(heap)
           /\ free = [heap |-> heap, ret |-> call.ret]
           /\ (out.op = "ToYQL" /\ out.ref = call.ret /\ ~out.panic) =>
                /\ out.yql = "(" \o ToYQL(heap, x) \o " " \o keyword \o " "
                                 \o ToYQL(heap, y) \o ")"
                /\ (call.op = "x.Or" /\ heap[x].kind = "BooleanCondition"
                        /\ heap[x].Operator = "AND") =>
                      out.yql = "((" \o ToYQL(heap, heap[x].Left) \o " AND "
                                     \o ToYQL(heap, heap[x].Right) \o ") OR "
                                     \o ToYQL(heap, y) \o ")"

C2_Witness ==
    /\ Rendered("x.Or")
    /\ heap[call.in.recv] = BooleanNode(2, 1, "AND")
    /\ heap[2].kind = "NotCondition"
    /\ call.in.condition = 3
    /\ out.yql = "((!(A) AND A) OR (sizes contains sameElement(A)))"

\* the two texts are equal but for one occurrence of the keyword, lower-case
\* "and" in the first and upper-case "AND" in the second
DiffersInKeywordCase(lower, upper) ==
    /\ Len(lower) = Len(upper)
    /\ \E p \in 1..Len(lower) :
          /\ p + 2 <= Len(lower)
          /\ SubSeq(lower, p, p + 2) = "and"
          /\ SubSeq(upper, p, p + 2) = "AND"
          /\ SubSeq(lower, 1, p - 1) = SubSeq(upper, 1, p - 1)
          /\ SubSeq(lower, p + 3, Len(lower)) = SubSeq(upper, p + 3, Len(upper))

\* a is And(Field(f).Gte(min), Field(f).Lte(max)) for the f, min, max of range r
IsAndOfBounds(a, r) ==
    /\ heap[r].kind = "RangeCondition"
    /\ heap[a].kind = "BooleanCondition"
    /\ heap[a].Operator = "AND"
    /\ heap[a].Left # NIL
    /\ heap[a].Right # NIL
    /\ heap[heap[a].Left] = FieldCondition(heap[r].Field, GTE, heap[r].Min, "")
    /\ heap[heap[a].Right] = FieldCondition(heap[r].Field, LTE, heap[r].Max, "")

\* C3: Field(f).Between(min, max) renders ((f >= min) and (f <= max)),
\* And(Field(f).Gte(min), Field(f).Lte(max)) renders ((f >= min) AND (f <= max)),
\* and the two texts differ in the case of that keyword and in nothing else.
C3_RangeKeywordCase ==
    \A r \in Refs :
        heap[r].kind = "RangeCondition" =>
            LET lo == "(" \o heap[r].Field \o " >= " \o formatValue(heap[r].Min) \o ")"
                hi == "(" \o heap[r].Field \o " <= " \o formatValue(heap[r].Max) \o ")"
            IN /\ (out.op = "ToYQL" /\ out.ref = r) =>
                     out.yql = "(" \o lo \o " and " \o hi \o ")"
               /\ \A a \in Refs :
                     IsAndOfBounds(a, r) =>
                        /\ (out.op = "ToYQL" /\ out.ref = a) =>
                              out.yql = "(" \o lo \o " AND " \o hi \o ")"
                        /\ DiffersInKeywordCase(ToYQL(heap, r), ToYQL(heap, a))

C3_Witness ==
    /\ Rendered("And")
    /\ call.ret # NIL
    /\ IsAndOfBounds(call.ret, 3)
    /\ out.yql = "((price >= 10) AND (price <= 100.5))"
    /\ ToYQL(heap, 3) = "((price >= 10) and (price <= 100.5))"

RECURSIVE LastOption(_, _)
LastOption(opts, name) ==
    IF Len(opts) = 0 THEN <<>>
    ELSE IF opts[Len(opts)].opt = name THEN <<opts[Len(opts)].arg>>
    ELSE LastOption(SubSeq(opts, 1, Len(opts) - 1), name)

-----------------------------------------------------------------------------
(* Properties of validation and of the assembled where clause.             *)

Terminal == {"Build", "BuildYQL"}

\* the last terminal call returned a ValidationError with this Field
FailedOn(field) ==
    /\ res.op \in Terminal
    /\ ~res.panic
    /\ Len(res.err) = 1
    /\ res.err[1].Field = field

WellPrefixed(key) == Len(key) >= 12 /\ SubSeq(key, 1, 12) = "input.query("

\* C7: Build and BuildYQL on a builder without a source return a
\* ValidationError with Field "sources", whatever else was accumulated: a
\* malformed input key, a where condition (even a nil one) or a ranking profile
\* do not change the error, because the sources are checked first.
C7_SourcesFirst ==
    (res.op \in Terminal /\ Len(qb.sources) = 0) => FailedOn("sources")

C7_Witness ==
    /\ res.op = "Build"
    /\ Len(qb.sources) = 0
    /\ \E key \in DOMAIN qb.inputParams : ~WellPrefixed(key)
    /\ Len(qb.whereConditions) > 0
    /\ qb.ranking # ""
    /\ FailedOn("sources")

\* C8: with at least one source, Build and BuildYQL return a ValidationError
\* with Field "input" exactly when some accumulated input key lacks the prefix
\* "input.query(", and no validation error when every key has it (or there is
\* none); WithInput stores every key it is given, well-prefixed or not.
C8_InputKeyPrefix ==
    /\ (res.op \in Terminal /\ Len(qb.sources) > 0) =>
          /\ FailedOn("input") <=> \E key \in DOMAIN qb.inputParams : ~WellPrefixed(key)
          /\ (\A key \in DOMAIN qb.inputParams : WellPrefixed(key)) => res.err = <<>>
    /\ call.op = "WithInput" =>
          /\ call.in.key \in DOMAIN qb.inputParams
          /\ qb.inputParams[call.in.key] = call.in.value

C8_Witness ==
    /\ res.op = "BuildYQL"
    /\ Len(qb.sources) > 0
    /\ call.op = "WithInput"
    /\ ~WellPrefixed(call.in.key)
    /\ \E key \in DOMAIN qb.inputParams : WellPrefixed(key)
    /\ FailedOn("input")

\* what is returned with a validation error: no record and no text
C9_NothingReturned ==
    (res.op \in Terminal /\ res.err # <<>>) =>
        /\ ~res.panic
        /\ res.err[1].Field \in {"sources", "input"}
        /\ res.op = "Build" => res.query = <<>>
        /\ res.op = "BuildYQL" => res.yql = ""
        /\ {Build(qb, heap, ranks, e).err : e \in validate(qb)}
              = {BuildYQL(qb, heap, ranks, e).err : e \in validate(qb)}

\* the text of a query of SpecValidate whose where conditions are all the
\* Custom expression of the initial heap
ValidateYQL ==
    "select * from sources " \o Join(qb.sources, ", ") \o " where "
      \o (IF Len(qb.whereConditions) = 0 THEN "true"
          ELSE Join([i \in 1..Len(qb.whereConditions) |-> "myfeature"], " and "))

\* a Build made after an earlier terminal call failed on the missing source,
\* now that a source is there (and nothing else stands in the way)
C9_LaterBuild ==
    (/\ res.op = "Build"
     /\ res.earlier = "sources"
     /\ Len(qb.sources) > 0
     /\ \A key \in DOMAIN qb.inputParams : WellPrefixed(key)
     /\ \A i \in 1..Len(qb.whereConditions) : qb.whereConditions[i] # NIL) =>
        /\ res.err = <<>>
        /\ Len(res.query) = 1
        /\ res.query[1].YQL = ValidateYQL
        /\ res.query[1].Ranking = qb.ranking
        /\ res.query[1].Input = qb.inputParams

\* C9: when validation fails, Build returns a nil query with the error and
\* BuildYQL the empty text with the same error; the failing call leaves the
\* builder, the rank collectors and the expressions as they were; and a Build
\* made once the missing source has been added succeeds with the settings
\* accumulated so far.
C9_ValidationFailure ==
    /\ [](C9_NothingReturned /\ C9_LaterBuild)
    /\ [][(res'.op \in Terminal /\ res'.err # <<>>) =>
             (qb' = qb /\ ranks' = ranks /\ heap' = heap)]_vars

C9_Witness ==
    /\ res.op = "Build"
    /\ res.earlier = "sources"
    /\ res.err = <<>>
    /\ Len(res.query) = 1
    /\ qb.ranking # ""
    /\ DOMAIN qb.inputParams # {}
    /\ Len(qb.whereConditions) > 0

\* the fragments of the where clause: the rendering of every where condition,
\* then that of the rank expression if one is set
Fragments ==
    [i \in 1..Len(qb.whereConditions) |-> ToYQL(heap, qb.whereConditions[i])]
      \o (IF qb.rankExpression # NIL
          THEN <<RankExpressionImpl_ToYQL(heap, ranks[qb.rankExpression])>>
          ELSE <<>>)

NotEmpty(s) == s # ""

WhereText ==
    IF SelectSeq(Fragments, NotEmpty) = <<>> THEN "where true"
    ELSE "where " \o Join(SelectSeq(Fragments, NotEmpty), " and ")

\* the text of the last successful terminal call
BuiltYQL == IF res.op = "Build" THEN res.query[1].YQL ELSE res.yql

-----------------------------------------------------------------------------
(* SpecRank: two rank collectors made by NewRank receive expressions built *)
(* beforehand (some rendering to the empty string, and nil) and are        *)
(* rendered.                                                               *)

MaxRankEntries == 3

PoolRank ==
    LET h1 == UserQuery(<<>>, <<>>).heap
        h2 == Custom(h1, "").heap
        h3 == ContainsSameElement(h2, Field("tags"), <<>>).heap
    IN Custom(h3, "closeness(field, embedding)").heap

\* the number of entries of all collectors
RECURSIVE TotalEntries(_)
TotalEntries(rs) ==
    IF rs = <<>> THEN 0 ELSE Len(Head(rs).conditions) + TotalEntries(Tail(rs))

InitRank ==
    /\ heap = PoolRank
    /\ call = NoCall
    /\ out = NoOut
    /\ qb = NewQueryBuilder
    /\ ranks = <<NewRank, NewRank>>
    /\ res = NoRes

NextRank ==
    \/ TotalEntries(ranks) < MaxRankEntries /\ DoAddCondition(MaxRankEntries, RefsOrNil)
    \/ DoRankToYQL

SpecRank == InitRank /\ [][NextRank]_vars

-----------------------------------------------------------------------------
(* Properties of the rank collector.                                       *)

\* the renderings of the entries of collector r, in insertion order
EntryTexts(r) ==
    [i \in 1..Len(ranks[r].conditions) |-> ToYQL(heap, ranks[r].conditions[i])]

\* this step is r.AddCondition(c): r gets c as its new last entry and keeps
\* the entries it had, every other collector is left alone, and r is returned
AppendsOne(r, c) ==
    /\ Len(ranks') = Len(ranks)
    /\ \A o \in 1..Len(ranks) : o # r => ranks'[o] = ranks[o]
    /\ Len(ranks'[r].conditions) = Len(ranks[r].conditions) + 1
    /\ SubSeq(ranks'[r].conditions, 1, Len(ranks[r].conditions)) = ranks[r].conditions
    /\ ranks'[r].conditions[Len(ranks'[r].conditions)] = c
    /\ call'.ret = r

C11_Rendering ==
    (out.op = "RankExpression.ToYQL" /\ ~out.panic) =>
        /\ out.yql # "rank()"
        /\ out.yql = IF SelectSeq(EntryTexts(out.ref), NotEmpty) = <<>> THEN ""
                     ELSE "rank(" \o Join(SelectSeq(EntryTexts(out.ref), NotEmpty), ", ")
                             \o ")"

\* C11: AddCondition appends exactly one entry at the end of its collector,
\* keeps the earlier entries in order, touches no other collector and returns
\* the collector it was called on; the collector renders as rank(...) around
\* the non-empty renderings of its entries, in insertion order and joined with
\* ", ", and as the empty text (never "rank()") when no rendering is non-empty.
C11_RankCollector ==
    /\ []C11_Rendering
    /\ [][ranks' # ranks =>
            /\ call'.op = "AddCondition"
            /\ AppendsOne(call'.in.recv, call'.in.condition)]_vars

C11_Witness ==
    /\ out.op = "RankExpression.ToYQL"
    /\ call.op = "AddCondition"
    /\ call.ret = 2
    /\ out.ref = 2
    /\ ranks[2].conditions = <<4, 3, 1>>
    /\ ranks[1].conditions = <<>>
    /\ out.yql = "rank(closeness(field, embedding), userQuery())"

-----------------------------------------------------------------------------
(* SpecRecord: the scalar settings and the input parameters are set, in    *)
(* any order and any number of times, and the builder is built.            *)

RecordSources == {<<"products">>}
RecordProfiles == {"bm25", "semantic"}
RecordHits == {10, 0, -1}
RecordOffsets == {20, -5}
RecordIndexes == {"default"}
RecordKeys == {"input.query(q)"}
RecordValues == {IntV(1), StrV("x")}
RecordQueries == {"shoes"}

InitRecord ==
    /\ heap = <<>>
    /\ call = NoCall
    /\ out = NoOut
    /\ qb = NewQueryBuilder
    /\ ranks = <<>>
    /\ res = NoRes

NextRecord ==
    \/ qb.sources = <<>> /\ DoFrom(RecordSources)
    \/ DoWithRanking(RecordProfiles)
    \/ DoWithHits(RecordHits)
    \/ DoWithOffset(RecordOffsets)
    \/ DoWithDefaultIndex(RecordIndexes)
    \/ DoWithInput(RecordKeys, RecordValues)
    \/ DoWithQuery(RecordQueries)
    \/ DoBuild

SpecRecord == InitRecord /\ [][NextRecord]_vars

-----------------------------------------------------------------------------
(* Properties of the record Build returns.                                 *)

\* the last terminal call was a Build that returned a record
Built == res.op = "Build" /\ res.err = <<>> /\ ~res.panic /\ Len(res.query) = 1

\* the fields of the record that hold for every setting
PassedThrough ==
    /\ res.query[1].Ranking = qb.ranking
    /\ res.query[1].DefaultIndex = qb.defaultIndex
    /\ res.query[1].Query = qb.query
    /\ DOMAIN res.query[1].Input = DOMAIN qb.inputParams
    /\ \A key \in DOMAIN qb.inputParams : res.query[1].Input[key] = qb.inputParams[key]

\* C12 as stated: every field of the record other than YQL is the builder's
\* setting, and Hits and Offset are the last values given to WithHits and
\* WithOffset.
C12_PassThrough ==
    Built =>
        /\ PassedThrough
        /\ res.query[1].Hits = qb.hits
        /\ res.query[1].Offset = qb.offset
        /\ call.op = "WithHits" => res.query[1].Hits = call.in.hits
        /\ call.op = "WithOffset" => res.query[1].Offset = call.in.offset

\* C12, amended: ranking, defaultIndex, query and input are the builder's
\* settings; Hits and Offset are the last values given to WithHits and
\* WithOffset when these are positive, and zero (suppressed) when they are zero
\* or negative.
C12_PassThroughPositive ==
    Built =>
        /\ PassedThrough
        /\ res.query[1].Hits = (IF qb.hits > 0 THEN qb.hits ELSE 0)
        /\ res.query[1].Offset = (IF qb.offset > 0 THEN qb.offset ELSE 0)
        /\ call.op = "WithHits" =>
              res.query[1].Hits = (IF call.in.hits > 0 THEN call.in.hits ELSE 0)
        /\ call.op = "WithOffset" =>
              res.query[1].Offset = (IF call.in.offset > 0 THEN call.in.offset ELSE 0)

C12_Witness ==
    /\ Built
    /\ call.op = "WithOffset"
    /\ call.in.offset < 0
    /\ res.query[1].Offset = 0
    /\ res.query[1].Hits = 10
    /\ res.query[1].Ranking = "semantic"
    /\ res.query[1].DefaultIndex = "default"
    /\ res.query[1].Query = "shoes"
    /\ res.query[1].Input = [k \in RecordKeys |-> StrV("x")]

-----------------------------------------------------------------------------
(* SpecAbsent: the "no expression" result of And() / Or() is used as a     *)
(* child of one combinator call, as a Where argument and as a rank entry,  *)
(* and the expressions, the collector and the builder are rendered.        *)

PoolAbsent == Custom(<<>>, "A").heap

AbsentFields == {"tags"}

\* no combinator has been called yet
Untouched == heap = PoolAbsent

InitAbsent ==
    /\ heap = PoolAbsent
    /\ call = NoCall
    /\ out = NoOut
    /\ qb = NewQueryBuilder
    /\ ranks = <<NewRank>>
    /\ res = NoRes

NextAbsent ==
    \/ Untouched /\ DoAnd(MaxArgs)
    \/ Untouched /\ DoOr(MaxArgs)
    \/ Untouched /\ DoNot
    \/ Untouched /\ DoContainsSameElement(AbsentFields, MaxArgs)
    \/ Untouched /\ DoMethodAnd
    \/ Untouched /\ DoMethodOr
    \/ DoToYQL(Refs)
    \/ qb.sources = <<>> /\ DoFrom(Sources)
    \/ qb.whereConditions = <<>> /\ DoWhere(RefsOrNil)
    \/ ranks[1].conditions = <<>> /\ DoAddCondition(MaxRankConditions, RefsOrNil)
    \/ DoRank
    \/ DoRankToYQL
    \/ DoBuildYQL
    \/ DoBuild

SpecAbsent == InitAbsent /\ [][NextAbsent]_vars

-----------------------------------------------------------------------------
(* Properties of rendering in the presence of "no expression".             *)

\* C13: rendering never fails: ToYQL on an expression built by the
\* constructors and combinators, ToYQL on a rank collector, and Build /
\* BuildYQL return a text or a validation error and never panic, also when the
\* result of And() / Or() without arguments is a child, a Where argument or a
\* rank entry.
C13_RenderingNeverFails ==
    /\ (out.op = "ToYQL" /\ out.ref # NIL) => ~out.panic
    /\ out.op = "RankExpression.ToYQL" => ~out.panic
    /\ res.op \in Terminal => ~res.panic

-----------------------------------------------------------------------------
(* SpecFormat: the value formatter and the escape function are applied to  *)
(* every string of up to MaxStrLen characters over a quote, a backslash    *)
(* and a letter, and the escape function to its own output.                *)

MaxStrLen == 4

FormatAlphabet == {"'", "\\", "a"}

RECURSIVE StringsUpTo(_)
StringsUpTo(n) ==
    IF n = 0 THEN {""}
    ELSE StringsUpTo(n - 1) \cup {p \o c : p \in StringsUpTo(n - 1), c \in FormatAlphabet}

FormatStrings == StringsUpTo(MaxStrLen)

InitFormat ==
    /\ heap = <<>>
    /\ call = NoCall
    /\ out = NoOut
    /\ qb = NewQueryBuilder
    /\ ranks = <<>>
    /\ res = NoRes

NextFormat ==
    \/ DoFormatValue({StrV(s) : s \in FormatStrings})
    \/ DoEscapeString(FormatStrings)
    \/ DoEscapeAgain

SpecFormat == InitFormat /\ [][NextFormat]_vars

-----------------------------------------------------------------------------
(* Properties of the value formatter.                                      *)

\* s with a backslash put before each of its quotes, character by character
QuotesEscaped(s) ==
    Join([i \in 1..Len(s) |->
            IF SubSeq(s, i, i) = "'" THEN "\\'" ELSE SubSeq(s, i, i)], "")

\* C14: formatValue renders a string s as ' + s with \ put before every quote
\* and nothing else changed + ', of length Len(s) + number of quotes + 2 (a
\* backslash of s is kept as it is), escaping once; escapeString applied to
\* its own output changes it again exactly when s holds a quote.
C14_StringEscaping ==
    /\ call.op = "formatValue" =>
          LET s == call.in.value.s
          IN /\ call.ret = "'" \o QuotesEscaped(s) \o "'"
             /\ Len(call.ret) = Len(s) + StrCount(s, "'") + 2
             /\ StrCount(call.ret, "\\") = StrCount(s, "\\") + StrCount(s, "'")
    /\ call.op = "escapeString" =>
          /\ call.ret = QuotesEscaped(call.in.s)
          /\ out.op = "escapeString" =>
                /\ out.in.s = call.ret
                /\ out.ret = QuotesEscaped(call.ret)
                /\ StrCount(call.in.s, "'") > 0 <=> out.ret # call.ret

C14_Witness ==
    /\ call.op = "escapeString"
    /\ call.in.s = "a'\\'"
    /\ call.ret = "a\\'\\\\'"
    /\ out.op = "escapeString"
    /\ out.ret = "a\\\\'\\\\\\'"

-----------------------------------------------------------------------------
(* SpecClauses: fields and sources are accumulated over several Select and *)
(* From calls (also calls without arguments), at most one where condition  *)
(* is added, and the builder is built at any point.                        *)

MaxSelect == 2

ClauseFields == {<<>>, <<"id">>, <<"title", "price">>}
ClauseSources == {<<>>, <<"products">>, <<"articles", "blogs">>}

PoolClauses == Custom(<<>>, "A").heap

InitClauses ==
    /\ heap = PoolClauses
    /\ call = NoCall
    /\ out = NoOut
    /\ qb = NewQueryBuilder
    /\ ranks = <<>>
    /\ res = NoRes

NextClauses ==
    \/ Len(qb.selectFields) < MaxSelect /\ DoSelect(ClauseFields)
    \/ Len(qb.sources) < MaxSources /\ DoFrom(ClauseSources)
    \/ qb.whereConditions = <<>> /\ DoWhere(Refs)
    \/ DoBuildYQL
    \/ DoBuild

SpecClauses == InitClauses /\ [][NextClauses]_vars

-----------------------------------------------------------------------------
(* Properties of the select and source clauses.                            *)

\* the last terminal call returned a text
Rendering == res.op \in Terminal /\ res.err = <<>> /\ ~res.panic

SelectText ==
    IF qb.selectFields = <<>> THEN "select *"
    ELSE "select " \o Join(qb.selectFields, ", ")

\* the where fragment of a query of SpecClauses
ClausesWhereText == IF qb.whereConditions = <<>> THEN "where true" ELSE "where A"

\* C15 as stated: the final render is the select clause ("select *" without
\* fields), the source clause ("from sources *" without sources) and the where
\* fragment, joined by single spaces.
C15_Clauses ==
    res.op \in Terminal =>
        /\ Rendering
        /\ BuiltYQL = SelectText \o " "
              \o (IF qb.sources = <<>> THEN "from sources *"
                  ELSE "from sources " \o Join(qb.sources, ", "))
              \o " " \o ClausesWhereText

\* C15, amended: a final render exists only when a source was given, and is
\* then the select clause ("select f1, f2, ..." in call order, or "select *"
\* without fields), "from sources s1, s2, ..." in call order and the where
\* fragment, joined by single spaces; without a source Build and BuildYQL fail
\* on "sources" and "from sources *" is never rendered.
C15_ClausesWithSource ==
    res.op \in Terminal =>
        /\ qb.sources = <<>> => FailedOn("sources")
        /\ qb.sources # <<>> =>
              /\ Rendering
              /\ BuiltYQL = SelectText \o " from sources " \o Join(qb.sources, ", ")
                               \o " " \o ClausesWhereText

C15_Witness ==
    /\ res.op = "BuildYQL"
    /\ qb.sources = <<"products", "articles", "blogs">>
    /\ qb.selectFields = <<"id", "title", "price">>
    /\ res.yql = "select id, title, price from sources products, articles, blogs where A"

-----------------------------------------------------------------------------
(* SpecSetters: one setter is called on a builder that is new or has       *)
(* already accumulated settings in every field.                            *)

PoolSetters == Custom(Custom(<<>>, "A").heap, "B").heap

\* builders the setters have produced: only lists, and two with everything
ListsBuilder ==
    Where(Where(From(Select(NewQueryBuilder, <<"id">>), <<"products">>), 1), 2)
FullBuilder ==
    WithQuery(WithInput(WithDefaultIndex(WithOffset(WithHits(WithRanking(
        Rank(ListsBuilder, 1), "bm25"), 10), 20), "default"),
        "input.query(q)", IntV(1)), "shoes")
OtherBuilder ==
    WithInput(WithInput(Where(Select(FullBuilder, <<"title", "price">>), NIL),
        "input.query(q)", IntV(2)), "invalid_key", StrV("x"))

SetterBuilders == {NewQueryBuilder, ListsBuilder, FullBuilder, OtherBuilder}

SetterLists == {<<>>, <<"a">>, <<"b", "c">>}
SetterTexts == {"", "bm25", "other"}
SetterNumbers == {0, 10, -3}
SetterKeys == {"input.query(q)", "input.query(r)"}
SetterValues == {IntV(1), StrV("x")}

InitSetters ==
    /\ heap = PoolSetters
    /\ call = NoCall
    /\ out = NoOut
    /\ qb \in SetterBuilders
    /\ ranks = <<NewRank, NewRank>>
    /\ res = NoRes

NextSetters ==
    \/ call = NoCall /\ DoSelect(SetterLists)
    \/ call = NoCall /\ DoFrom(SetterLists)
    \/ call = NoCall /\ DoWhere(RefsOrNil)
    \/ call = NoCall /\ DoRank
    \/ call = NoCall /\ DoWithRanking(SetterTexts)
    \/ call = NoCall /\ DoWithHits(SetterNumbers)
    \/ call = NoCall /\ DoWithOffset(SetterNumbers)
    \/ call = NoCall /\ DoWithDefaultIndex(SetterTexts)
    \/ call = NoCall /\ DoWithInput(SetterKeys, SetterValues)
    \/ call = NoCall /\ DoWithQuery(SetterTexts)

SpecSetters == InitSetters /\ [][NextSetters]_vars

-----------------------------------------------------------------------------
(* Properties of the setters.                                              *)

\* this step changes no field of the builder other than f
OnlyChanges(f) == \A g \in DOMAIN qb \ {f} : qb'[g] = qb[g]

\* this step appends args to the list f, keeping its entries
Appends(f, args) ==
    /\ OnlyChanges(f)
    /\ Len(qb'[f]) = Len(qb[f]) + Len(args)
    /\ SubSeq(qb'[f], 1, Len(qb[f])) = qb[f]
    /\ SubSeq(qb'[f], Len(qb[f]) + 1, Len(qb'[f])) = args

\* this step sets f to value
Overwrites(f, value) == OnlyChanges(f) /\ qb'[f] = value

\* this step binds key to value in the input parameters, keeping the others
Binds(key, value) ==
    /\ OnlyChanges("inputParams")
    /\ DOMAIN qb'.inputParams = DOMAIN qb.inputParams \cup {key}
    /\ qb'.inputParams[key] = value
    /\ \A k \in DOMAIN qb.inputParams \ {key} : qb'.inputParams[k] = qb.inputParams[k]

\* the effect of the setter call recorded in call'
SetterEffect ==
    LET in == call'.in
    IN CASE call'.op = "Select" -> Appends("selectFields", in.fields)
         [] call'.op = "From" -> Appends("sources", in.sources)
         [] call'.op = "Where" -> Appends("whereConditions", <<in.condition>>)
         [] call'.op = "Rank" -> Overwrites("rankExpression", in.rankExpression)
         [] call'.op = "WithRanking" -> Overwrites("ranking", in.profile)
         [] call'.op = "WithHits" -> Overwrites("hits", in.hits)
         [] call'.op = "WithOffset" -> Overwrites("offset", in.offset)
         [] call'.op = "WithDefaultIndex" -> Overwrites("defaultIndex", in.index)
         [] call'.op = "WithQuery" -> Overwrites("query", in.query)
         [] call'.op = "WithInput" -> Binds(in.key, in.value)
         [] OTHER -> FALSE

\* C16: Select, From and Where append their arguments to their list, keeping
\* the earlier entries and the order; Rank, WithRanking, WithHits, WithOffset,
\* WithDefaultIndex and WithQuery overwrite their field; WithInput adds the key
\* or overwrites its value; every setter leaves every other field, the rank
\* collectors and the expressions as they were and returns the builder it was
\* called on.
C16_Setters ==
    [][call' # call =>
          /\ SetterEffect
          /\ call'.ret = Receiver
          /\ heap' = heap /\ ranks' = ranks]_vars

C16_Witness ==
    /\ call.op = "Where"
    /\ qb.whereConditions = <<1, 2, NIL, 2>>
    /\ qb.selectFields = <<"id", "title", "price">>
    /\ qb.hits = 10
    /\ DOMAIN qb.inputParams = {"input.query(q)", "invalid_key"}

-----------------------------------------------------------------------------
(* Properties of repeated terminal calls.                                  *)

\* the text a terminal call returned ("" with an error)
TextOf(r) ==
    IF r.op = "BuildYQL" THEN r.yql
    ELSE IF r.query = <<>> THEN "" ELSE r.query[1].YQL

\* the Field of the error a terminal call returned ("" without an error)
FieldOf(r) == IF r.err = <<>> THEN "" ELSE r.err[1].Field

\* this step is a terminal call that follows another one directly, and it
\* returns what that one returned
SameAgain ==
    res.op \in Terminal =>
        /\ res'.panic = res.panic
        /\ ~res.panic =>
              /\ FieldOf(res') = FieldOf(res)
              /\ TextOf(res') = TextOf(res)
              /\ (res'.op = "Build" /\ res.op = "Build") => res'.query = res.query

\* C17: Build and BuildYQL change no field of the builder (nor a rank
\* collector or an expression), and a terminal call made right after another
\* one, with no setter call between, returns the same text and record, or an
\* error with the same Field.
C17_PureRender ==
    [][res'.op \in Terminal =>
          /\ qb' = qb /\ ranks' = ranks /\ heap' = heap
          /\ SameAgain]_vars

C17_Witness ==
    /\ res.op = "Build"
    /\ res.again
    /\ res.err = <<>>
    /\ Len(res.query) = 1
    /\ res.query[1].Ranking = "bm25"
    /\ DOMAIN res.query[1].Input # {}
    /\ Len(qb.whereConditions) > 0

-----------------------------------------------------------------------------
(* SpecContains: beside a FieldCondition literal of operator CONTAINS whose *)
(* ContainsType was left unset, one condition is built by Contains from a   *)
(* drawn value and drawn options, and both are rendered.                    *)

ContainsFields == {"title", "brand"}
ContainsValues ==
    {StrV("nike"), StrV("it's"), StrSliceV(<<"nike", "ai'r">>), StrSliceV(<<"solo">>),
     StrSliceV(<<>>), IntV(10), BoolV(TRUE), NilV, SliceV(<<StrV("a"), IntV(1)>>)}

\* &FieldCondition{Field: f, Operator: CONTAINS, Value: v}
UntaggedContains(f, v) == FieldCondition(f, CONTAINS, v, "")

InitContains ==
    /\ heap \in {<<UntaggedContains(f, v)>> :
                     f \in ContainsFields, v \in {StrV("it's"), IntV(10)}}
    /\ call = NoCall
    /\ out = NoOut
    /\ qb = NewQueryBuilder
    /\ ranks = <<>>
    /\ res = NoRes

NextContains ==
    \/ call = NoCall
         /\ DoContains(ContainsFields, ContainsValues, SeqsUpTo(ContainsOptions, MaxOpts))
    \/ DoToYQL(Refs)

SpecContains == InitContains /\ [][NextContains]_vars

\* the match mode an option stands for
ModeOf(opt) ==
    CASE opt = "WithExactMatching" -> "exact"
      [] opt = "WithPhraseMatching" -> "phrase"
      [] opt = "WithFuzzyMatching" -> "fuzzy"

\* exact when no option is given, otherwise the mode of the last option
ModeAfter(opts) == IF opts = <<>> THEN "exact" ELSE ModeOf(opts[Len(opts)])

ExactTemplate(f, v) == "(" \o f \o " contains " \o formatValue(v) \o ")"

RECURSIVE KeywordList(_)
KeywordList(l) ==
    IF l = <<>> THEN ""
    ELSE IF Len(l) = 1 THEN "'" \o escapeString(l[1]) \o "'"
    ELSE "'" \o escapeString(l[1]) \o "', " \o KeywordList(Tail(l))

ContainsText(f, v, mode) ==
    CASE mode = "phrase" /\ v.k = "strslice" ->
            "(" \o f \o " contains phrase(" \o KeywordList(v.l) \o "))"
      [] mode = "phrase" /\ v.k = "string" ->
            "(" \o f \o " contains phrase(" \o formatValue(v) \o "))"
      [] mode = "fuzzy" -> "(" \o f \o " contains fuzzy(" \o formatValue(v) \o "))"
      [] OTHER -> ExactTemplate(f, v)

\* C18: Contains(value, options...) matches exactly when no option is given and
\* otherwise in the mode of the last option; it renders (f contains v) for
\* exact, also when the node's match-mode tag is unset, (f contains
\* phrase('k1', 'k2', ...)) for phrase with a list of strings, each keyword
\* quoted and escaped in order, (f contains phrase(v)) for phrase with one
\* string, the exact template for phrase with any other value, and
\* (f contains fuzzy(v)) for fuzzy.
C18_ContainsModes ==
    /\ call.op = "Contains" =>
         heap[call.ret].ContainsType = ModeAfter(call.in.opts)
    /\ Rendered("Contains") =>
         /\ ~out.panic
         /\ out.yql = ContainsText(call.in.field, call.in.value, ModeAfter(call.in.opts))
    /\ (out.op = "ToYQL" /\ heap[out.ref].Operator = CONTAINS
           /\ heap[out.ref].ContainsType = "") =>
         /\ ~out.panic
         /\ out.yql = ExactTemplate(heap[out.ref].Field, heap[out.ref].Value)

C18_Witness ==
    /\ Rendered("Contains")
    /\ call.in.opts = <<"WithFuzzyMatching", "WithPhraseMatching">>
    /\ call.in.value = StrSliceV(<<"nike", "ai'r">>)
    /\ out.yql = "(title contains phrase('nike', 'ai\\'r'))"

-----------------------------------------------------------------------------
(* SpecNot: Contains(v), NotContains(v) and NotEq(v) of one field f and one *)
(* string v, and a few other expressions, have been built; Not is applied   *)
(* to them and to its own results, and everything is rendered.              *)

MaxNots == 2

NotFields == {"brand", "f"}
NotStrings == {"nike", "it's"}

NotPool(f, v) ==
    LET h1 == FieldBuilder_Contains(<<>>, Field(f), StrV(v), <<>>).heap
        h2 == NotContains(h1, Field(f), v).heap
        h3 == NotEq(h2, Field(f), StrV(v)).heap
        h4 == Eq(h3, Field("active"), BoolV(TRUE)).heap
        h5 == Between(h4, Field("price"), FloatV(50), FloatV(150)).heap
        h6 == Custom(h5, "").heap
    IN And(h6, <<1, 4>>).heap

InitNot ==
    /\ heap \in {NotPool(f, v) : f \in NotFields, v \in NotStrings}
    /\ call = NoCall
    /\ out = NoOut
    /\ qb = NewQueryBuilder
    /\ ranks = <<>>
    /\ res = NoRes

NextNot ==
    \/ Len(heap) < Len(NotPool("f", "")) + MaxNots /\ DoNot
    \/ DoToYQL(RefsOrNil)

SpecNot == InitNot /\ [][NextNot]_vars

\* how many NotCondition nodes are stacked at r, and the expression below them
RECURSIVE Negations(_, _)
Negations(h, r) ==
    IF r # NIL /\ h[r].kind = "NotCondition" THEN 1 + Negations(h, h[r].Condition) ELSE 0
RECURSIVE Negated(_, _)
Negated(h, r) ==
    IF r # NIL /\ h[r].kind = "NotCondition" THEN Negated(h, h[r].Condition) ELSE r

RECURSIVE Repeat(_, _)
Repeat(s, n) == IF n = 0 THEN "" ELSE s \o Repeat(s, n - 1)

-----------------------------------------------------------------------------
\* C20: in every expression tree built by the public constructors and
\* combinators no BooleanCondition has a nil Left or Right, no NotCondition a
\* nil Condition and no SameElementCondition a nil element; the nil that And()
\* and Or() return for no argument never becomes such a child.
C20_NoNilChild ==
    \A r \in Refs :
        /\ heap[r].kind = "BooleanCondition" => heap[r].Left # NIL /\ heap[r].Right # NIL
        /\ heap[r].kind = "NotCondition" => heap[r].Condition # NIL
        /\ heap[r].kind = "SameElementCondition" =>
             \A i \in 1..Len(heap[r].Conditions) : heap[r].Conditions[i] # NIL

-----------------------------------------------------------------------------
(* SpecEmpty: expressions that render "" (a sameElement of nothing, an      *)
(* empty Custom, a FieldCondition literal whose operator is none of the     *)
(* known ones) and one that does not have been built; they are combined by  *)
(* one call of And, Or, Not, ContainsSameElement or a method, and rendered. *)

PoolEmpty ==
    LET h1 == ContainsSameElement(<<>>, Field("a"), <<>>).heap
        h2 == Custom(h1, "").heap
        h3 == Append(h2, FieldCondition("f", "~", IntV(1), ""))
    IN Custom(h3, "X").heap

InitEmpty ==
    /\ heap = PoolEmpty
    /\ call = NoCall
    /\ out = NoOut
    /\ qb = NewQueryBuilder
    /\ ranks = <<>>
    /\ res = NoRes

NextEmpty ==
    \/ call = NoCall /\ DoAnd(MaxArgs)
    \/ call = NoCall /\ DoOr(MaxArgs)
    \/ call = NoCall /\ DoNot
    \/ call = NoCall /\ DoContainsSameElement(SameFields, MaxArgs)
    \/ call = NoCall /\ DoMethodAnd
    \/ call = NoCall /\ DoMethodOr
    \/ DoToYQL(Refs)

SpecEmpty == InitEmpty /\ [][NextEmpty]_vars

\* a text with an operand missing
EmptyOperand(t) ==
    \/ StrContains(t, "( AND ") \/ StrContains(t, " AND )")
    \/ StrContains(t, "( OR ") \/ StrContains(t, " OR )")
    \/ StrContains(t, "!()")
    \/ StrContains(t, "sameElement(, ") \/ StrContains(t, ", )") \/ StrContains(t, ", , ")

\* C21: a node that renders "" is omitted by its parent, whatever the parent:
\* a BooleanCondition, a NotCondition or a SameElementCondition with a child
\* that renders "" leaves that child out, and no rendered text has an empty
\* operand such as "( AND " or "!()".
C21_EmptyOmitted ==
    (out.op = "ToYQL" /\ ~out.panic) => ~EmptyOperand(out.yql)

-----------------------------------------------------------------------------
(* SpecCombine: two leaves have been built; the combinators are called on   *)
(* them, Not and the And / Or methods also on the results of that call, a   *)
(* result is added to a rank collector, and the expressions and the         *)
(* collector are rendered.                                                  *)

MaxCombineArgs == 2

PoolCombine ==
    Gt(FieldBuilder_Contains(<<>>, Field("brand"), StrV("nike"), <<>>).heap,
       Field("price"), IntV(50)).heap

\* no combinator has been called yet, or one has, on the leaves alone
MayCombine ==
    IF call.op \in {"none", "AddCondition"} THEN heap = PoolCombine
    ELSE call.base = Len(PoolCombine)

InitCombine ==
    /\ heap = PoolCombine
    /\ call = NoCall
    /\ out = NoOut
    /\ qb = NewQueryBuilder
    /\ ranks = <<NewRank>>
    /\ res = NoRes

NextCombine ==
    \/ heap = PoolCombine /\ DoAnd(MaxCombineArgs)
    \/ heap = PoolCombine /\ DoOr(MaxCombineArgs)
    \/ MayCombine /\ DoNot
    \/ heap = PoolCombine /\ DoContainsSameElement(SameFields, MaxCombineArgs)
    \/ MayCombine /\ DoMethodAnd
    \/ MayCombine /\ DoMethodOr
    \/ ranks[1].conditions = <<>> /\ DoAddCondition(MaxRankConditions, Refs)
    \/ DoToYQL(Refs)
    \/ DoRankToYQL

SpecCombine == InitCombine /\ [][NextCombine]_vars

Combinators == {"And", "Or", "Not", "ContainsSameElement", "x.And", "x.Or"}

\* the child references a node holds
Children(node) ==
    CASE node.kind = "BooleanCondition" -> <<node.Left, node.Right>>
      [] node.kind = "NotCondition" -> <<node.Condition>>
      [] node.kind = "SameElementCondition" -> node.Conditions
      [] OTHER -> <<>>

\* the expressions a combinator call was given
Operands(c) ==
    CASE c.op \in {"And", "Or", "ContainsSameElement"} -> c.in.conditions
      [] c.op = "Not" -> <<c.in.condition>>
      [] c.op \in {"x.And", "x.Or"} -> <<c.in.recv, c.in.condition>>
      [] OTHER -> <<>>

Range(f) == {f[i] : i \in DOMAIN f}

\* every node that existed before the step is the same after it and renders the same
NodesKept ==
    \/ heap' = heap
    \/ /\ Len(heap') >= Len(heap)
       /\ \A r \in 1..Len(heap) :
             /\ heap'[r] = heap[r]
             /\ Panics(heap', r) = Panics(heap, r)
             /\ ~Panics(heap, r) => ToYQL(heap', r) = ToYQL(heap, r)

\* a combinator call that joins or wraps expressions returns a node allocated by
\* the call, and the children of the nodes it allocated are the expressions it
\* was given or nodes it allocated before
NewParent ==
    (call' # call /\ call'.op \in Combinators) =>
        /\ \A r \in (Len(heap) + 1)..Len(heap') :
              Range(Children(heap'[r])) \subseteq
                  Range(Operands(call')) \cup (Len(heap) + 1)..(r - 1)
        /\ (call'.op \notin {"And", "Or"} \/ Len(Operands(call')) >= 2) =>
              /\ call'.ret \in (Len(heap) + 1)..Len(heap')
              /\ Range(Operands(call')) \subseteq
                    UNION {Range(Children(heap'[r])) : r \in (Len(heap) + 1)..Len(heap')}

\* C22: expressions are immutable once built: And, Or, Not, .And, .Or,
\* ContainsSameElement, AddCondition and ToYQL change no field of an existing
\* node; combining allocates a new parent whose children are the original
\* nodes; every node that existed renders the same before and after each
\* further combine or render operation.
C22_Immutable == [][NodesKept /\ NewParent]_vars

C22_Witness ==
    /\ call.op = "x.Or"
    /\ heap[call.in.recv].kind = "NotCondition"
    /\ out.op = "ToYQL" /\ out.ref = call.in.recv
    /\ out.yql = "!((brand contains 'nike'))"
    /\ ranks[1].conditions = <<1>>

\* how many times r is held as a child, over all nodes
Holders(r) ==
    {<<p, i>> \in Refs \X (1..(MaxCombineArgs + 1)) :
        i <= Len(Children(heap[p])) /\ Children(heap[p])[i] = r}

\* every child was built before the node that holds it, so no node reaches itself
BottomUp ==
    \A p \in Refs : \A i \in 1..Len(Children(heap[p])) : Children(heap[p])[i] < p

\* C23: each node exclusively owns its children: no node is the child of two
\* parents or twice the child of one parent, and the graph has no cycle.
C23_ExclusiveOwnership ==
    /\ \A r \in Refs : Cardinality(Holders(r)) <= 1
    /\ BottomUp

\* C23 (amended): the graph has no cycle, every child having been built before
\* its parent, while a node may be held by several parents or several times
\* by one.
C23_Acyclic == BottomUp

C23_Witness ==
    /\ call.op = "x.Or"
    /\ heap[call.ret] = [kind |-> "BooleanCondition", Left |-> 1, Right |-> 3,
                         Operator |-> "OR"]
    /\ heap[3] = [kind |-> "NotCondition", Condition |-> 1]
    /\ out.op = "ToYQL" /\ out.ref = call.ret
    /\ out.yql = "((brand contains 'nike') OR !((brand contains 'nike')))"

-----------------------------------------------------------------------------
\* the non-empty renderings of the where conditions, in the order the builder holds them
WhereFragments ==
    SelectSeq([i \in 1..Len(qb.whereConditions) |-> ToYQL(heap, qb.whereConditions[i])],
              NotEmpty)

\* the rendering of the rank expression the builder holds, "" if it holds none
RankFragment ==
    IF qb.rankExpression = NIL THEN ""
    ELSE RankExpressionImpl_ToYQL(heap, ranks[qb.rankExpression])

\* the where conditions only ever change by one more at the end, the argument of
\* the Where call that is made
WhereInCallOrder ==
    qb'.whereConditions # qb.whereConditions =>
        /\ call'.op = "Where"
        /\ qb'.whereConditions = qb.whereConditions \o <<call'.in.condition>>

\* the built text is the where fragments in order, then the rank fragment
RankLast ==
    (res.op \in Terminal /\ res.err = <<>> /\ ~res.panic /\ RankFragment # "") =>
        BuiltYQL = buildSelectClause(qb) \o " " \o buildFromClause(qb) \o " where "
                     \o Join(WhereFragments \o <<RankFragment>>, " and ")

\* C24: in the assembled where clause the fragments of the where conditions
\* stand in the order of the Where calls, and the rank(...) fragment, when it
\* is not empty, comes last, after every where fragment, whether Rank was
\* called before or after the Where calls.
C24_RankLast == []RankLast /\ [][WhereInCallOrder]_vars

C24_Witness ==
    /\ res.op = "Build" /\ res.err = <<>> /\ ~res.panic
    /\ call.op = "Where"
    /\ qb.rankExpression = 1
    /\ ranks[1].conditions = <<3>>
    /\ qb.whereConditions = <<1, 3>>
    /\ BuiltYQL = "select * from sources products where (brand contains 'nike') and "
                    \o "closeness(field, embedding) and rank(closeness(field, embedding))"

-----------------------------------------------------------------------------
(* SpecFallback: formatValue is called on values of every kind, those the   *)
(* type switch names and those it leaves to its default case: values of a   *)
(* named string type, []interface{} and []string.                          *)

FallbackValues ==
    {NamedV(s) : s \in FormatStrings}
      \cup {StrV(s) : s \in {"", "a", "it's"}}
      \cup {NilV, IntV(10), IntV(-3), FloatV(45), BoolV(TRUE), BoolV(FALSE),
            SliceV(<<StrV("a"), IntV(1)>>), SliceV(<<StrV("it's"), NilV>>), SliceV(<<>>),
            StrSliceV(<<"nike", "ai'r">>), StrSliceV(<<"solo">>), StrSliceV(<<>>)}

InitFallback ==
    /\ heap = <<>>
    /\ call = NoCall
    /\ out = NoOut
    /\ qb = NewQueryBuilder
    /\ ranks = <<>>
    /\ res = NoRes

NextFallback == DoFormatValue(FallbackValues)

SpecFallback == InitFallback /\ [][NextFallback]_vars

\* the kinds the type switch of formatValue names
KnownKinds == {"nil", "string", "int", "float", "bool"}

\* C25: the formatter never fails, and a value of a kind it does not know (a
\* list given to a non-list operator, a named string type) is rendered through
\* the string path applied to its stringified form: as the formatter renders
\* the plain string equal to that form, in single quotes with every ' inside
\* escaped as \'.
C25_UnknownKindAsString ==
    (call.op = "formatValue" /\ call.in.value.k \notin KnownKinds) =>
        /\ call.ret = formatValue(StrV(Sprint(call.in.value)))
        /\ call.ret = "'" \o QuotesEscaped(Sprint(call.in.value)) \o "'"

-----------------------------------------------------------------------------
\* C26: building is deterministic: after the same setter calls Build gives the
\* same outcome, the identical text and record, or a validation error with the
\* identical Field and Message, also when several input keys lack the prefix.
\* Two terminal calls with no setter call between them are made on equal
\* builders.
C26_Deterministic ==
    [][(res.op \in Terminal /\ res'.op \in Terminal) =>
          /\ res'.panic = res.panic
          /\ res'.err = res.err
          /\ TextOf(res') = TextOf(res)
          /\ (res'.op = "Build" /\ res.op = "Build") => res'.query = res.query]_vars

-----------------------------------------------------------------------------
(* SpecKept: the caller keeps the record a Build returned in `out`, goes on *)
(* calling setters on the builder, and assigns to the kept record's Input.  *)
(* A Go map is a reference: `shared` tells whether the kept record's Input  *)
(* is the very map the builder holds, in which case an assignment through   *)
(* either is seen through both.                                             *)

\* Build handing out the builder's own map: query.Input = qb.inputParams
InputShared_Alias(b) == Cardinality(DOMAIN b.inputParams) > 0

\* whether the Input of the record Build returns is the builder's own map:
\* Build makes a new map and copies the entries into it
InputShared(b) == FALSE

KeptKeys == {"input.query(q)", "input.query(v)"}
KeptValues == {IntV(1), IntV(2)}
KeptHits == {10, 20}

\* q, _ := qb.Build(): the caller keeps the record the last Build returned
DoKeep ==
    /\ res.op = "Build" /\ res.err = <<>> /\ ~res.panic
    /\ out' = [op |-> "VespaQuery", query |-> res.query[1], shared |-> InputShared(qb)]
    /\ UNCHANGED <<heap, call, qb, ranks, res>>

\* qb.WithInput(key, value) while the caller keeps a record
DoWithInputKept(K, V) == \E key \in K, value \in V :
    /\ qb' = WithInput(qb, key, value)
    /\ call' = [op |-> "WithInput", in |-> [key |-> key, value |-> value],
                ret |-> Receiver]
    /\ res' = [op |-> "none", earlier |-> Failure(res)]
    /\ out' = IF out.op = "VespaQuery" /\ out.shared
              THEN [out EXCEPT !.query.Input = WithInput(qb, key, value).inputParams]
              ELSE out
    /\ UNCHANGED <<heap, ranks>>

\* q.Input[key] = value on the kept record (its Input is a nil map, and the
\* assignment a panic, unless the builder had input parameters)
DoPutInput(K, V) == \E key \in K, value \in V :
    /\ out.op = "VespaQuery"
    /\ out.query.Input # EmptyMap
    /\ out' = [out EXCEPT !.query.Input =
                  [k \in (DOMAIN @) \cup {key} |-> IF k = key THEN value ELSE @[k]]]
    /\ qb' = IF out.shared THEN WithInput(qb, key, value) ELSE qb
    /\ call' = [op |-> "q.Input[key] = value", in |-> [key |-> key, value |-> value]]
    /\ res' = [op |-> "none", earlier |-> Failure(res)]
    /\ UNCHANGED <<heap, ranks>>

InitKept ==
    /\ heap = Custom(<<>>, "A").heap
    /\ call = NoCall
    /\ out = NoOut
    /\ qb \in {From(NewQueryBuilder, <<"products">>),
               WithInput(From(NewQueryBuilder, <<"products">>), "input.query(q)", IntV(1))}
    /\ ranks = <<>>
    /\ res = NoRes

NextKept ==
    \/ DoWithInputKept(KeptKeys, KeptValues)
    \/ DoWithHits(KeptHits)
    \/ qb.whereConditions = <<>> /\ DoWhere(Refs)
    \/ Len(qb.sources) = 1 /\ DoFrom({<<"articles">>})
    \/ DoBuild
    \/ DoKeep
    \/ DoPutInput(KeptKeys \cup {"mine"}, KeptValues)

SpecKept == InitKept /\ [][NextKept]_vars

\* the step is a setter call on the builder
SetterStep ==
    /\ res'.op = "none"
    /\ call'.op \in {"WithInput", "WithHits", "Where", "From"}
    /\ qb' # qb

\* the step is an assignment to the kept record's Input
PutStep == call'.op = "q.Input[key] = value" /\ out' # out

\* C27: a VespaQuery returned by Build is independent of the builder: Build
\* copies the input map, so a later setter call (WithInput with a new or an
\* existing key, WithHits, Where, From) leaves the YQL, the scalar fields and
\* the keys and bindings of Input of a record already returned unchanged, and
\* adding a key to a returned record's Input does not change what the builder
\* produces next.
C27_Independent ==
    [][/\ (out.op = "VespaQuery" /\ SetterStep) => out' = out
       /\ PutStep =>
            /\ validate(qb') = validate(qb)
            /\ \A err \in validate(qb) :
                  Build(qb', heap', ranks', err) = Build(qb, heap, ranks, err)]_vars

C27_Witness ==
    /\ out.op = "VespaQuery"
    /\ out.query.Input = ("input.query(q)" :> IntV(1)) @@ ("mine" :> IntV(2))
    /\ out.query.Hits = 0
    /\ call.op = "WithInput"
    /\ qb.inputParams = ("input.query(q)" :> IntV(2)) @@ ("input.query(v)" :> IntV(1))
    /\ qb.hits = 10
    /\ res.op = "Build" /\ res.err = <<>>
    /\ res.query[1].Input = qb.inputParams

-----------------------------------------------------------------------------
\* the text ends with t
HasSuffix(s, t) == Len(s) >= Len(t) /\ SubSeq(s, Len(s) - Len(t) + 1, Len(s)) = t

\* a successful build ends with the rendering of the collector as it is now:
\* every call since the build (a setter, AddCondition) has reset `res`
ReflectsCollector ==
    (res.op \in Terminal /\ res.err = <<>> /\ ~res.panic /\ qb.rankExpression # NIL) =>
        HasSuffix(BuiltYQL,
                  RankText(SelectSeq([i \in 1..Len(ranks[qb.rankExpression].conditions) |->
                                         ToYQL(heap, ranks[qb.rankExpression].conditions[i])],
                                     NotEmpty)))

\* the step is r.AddCondition(c) on the collector r the builder was given,
\* made right after a successful build
AddsAfterBuild ==
    /\ res.op \in Terminal /\ res.err = <<>> /\ ~res.panic
    /\ res'.op = "none"
    /\ call'.op = "AddCondition"
    /\ call'.in.recv = qb.rankExpression

\* the build that follows the step differs from the one before it
NextBuildDiffers ==
    \A err \in validate(qb') : BuildYQL(qb', heap', ranks', err).yql # TextOf(res)

\* C28: the builder keeps the RankExpression by reference: a condition added
\* with AddCondition after Rank(r) is in the rank(...) fragment of every later
\* build, the fragment being the collector's contents at the time of that
\* build, and two successive builds separated only by an AddCondition on r
\* yield different YQL.
C28_ByReference ==
    []ReflectsCollector /\ [][AddsAfterBuild => NextBuildDiffers]_<<ranks, res>>

\* C28 (amended): as above, the two builds differing when the added condition
\* renders to a non-empty text.
C28_ByReferenceNonEmpty ==
    /\ []ReflectsCollector
    /\ [][(AddsAfterBuild /\ call'.in.condition # NIL
              /\ ToYQL(heap, call'.in.condition) # "") => NextBuildDiffers]_<<ranks, res>>

C28_Witness ==
    /\ res.op = "BuildYQL" /\ res.earlier = ""
    /\ call.op = "AddCondition" /\ call.in = [recv |-> 1, condition |-> 1]
    /\ qb.rankExpression = 1
    /\ ranks[1].conditions = <<3, 1>>
    /\ qb.whereConditions = <<>>
    /\ res.yql = "select * from sources products where "
                   \o "rank(closeness(field, embedding), (brand contains 'nike'))"

-----------------------------------------------------------------------------
\* the input keys of the builder that lack the prefix
BadKeys(b) == {key \in DOMAIN b.inputParams : ~WellPrefixed(key)}

\* no call on the builder removes a source or a malformed input key
NothingRemoved ==
    /\ qb.sources # <<>> => qb'.sources # <<>>
    /\ BadKeys(qb) \subseteq BadKeys(qb')

\* a From call with a source leaves the builder with one, a WithInput call with
\* a malformed key leaves that key in the builder
Recorded ==
    /\ (call.op = "From" /\ call.in.sources # <<>>) => qb.sources # <<>>
    /\ (call.op = "WithInput" /\ ~WellPrefixed(call.in.key)) =>
          call.in.key \in BadKeys(qb)

\* what a terminal call returns on a builder with a source, and on one with a
\* malformed key
Outcome ==
    res.op \in Terminal =>
        /\ qb.sources # <<>> => ~FailedOn("sources")
        /\ BadKeys(qb) # {} =>
              /\ ~res.panic /\ Len(res.err) = 1
              /\ res.err[1].Field \in {"sources", "input"}
              /\ TextOf(res) = ""

\* C29: the validation outcome is monotone over a builder's life, no setter
\* removing a source or an input key: once From has added a source the check
\* of the sources passes in every later build, and once WithInput was called
\* with a key that does not begin with input.query( every later Build and
\* BuildYQL fails with a validation error, whatever setters are called after.
C29_Monotone == [](Recorded /\ Outcome) /\ [][NothingRemoved]_qb

C29_Witness ==
    /\ res.op = "Build"
    /\ call.op = "WithInput" /\ call.in.key = "input.query(q)"
    /\ DOMAIN qb.inputParams = {"invalid_key", "input.query(q)"}
    /\ qb.ranking = "bm25"
    /\ qb.sources = <<"products", "articles", "blogs">>
    /\ FailedOn("input")

-----------------------------------------------------------------------------
(* SpecBalanced: leaves of four kinds and a negation have been built from   *)
(* fields, values, a label and an index name without parentheses; they are  *)
(* combined by one call, the result is given to Where and to a rank         *)
(* collector, and the expression, the collector and the query are rendered. *)

PoolBalanced ==
    LET h1 == FieldBuilder_Contains(<<>>, Field("title"), StrSliceV(<<"it's", "b">>),
                                    <<"WithPhraseMatching">>).heap
        h2 == Between(h1, Field("price"), IntV(10), FloatV(1005)).heap
        h3 == FieldBuilder_NearestNeighbor(h2, Field("embedding"), "query_vector", 10,
                  <<[opt |-> "WithLabel", arg |-> "main"],
                    [opt |-> "WithApproximate", arg |-> FALSE]>>).heap
        h4 == UserQuery(h3, <<"title">>).heap
    IN Not(h4, 2).heap

\* the expression built last
Newest == {Len(heap)}

\* the calls on the builder follow one chain: From, then Where or not, then
\* AddCondition on the collector, then Rank
Sourced == qb.sources # <<>> /\ ranks[1].conditions = <<>>
Collected == ranks[1].conditions # <<>> /\ qb.rankExpression = NIL

InitBalanced ==
    /\ heap = PoolBalanced
    /\ call = NoCall
    /\ out = NoOut
    /\ qb = NewQueryBuilder
    /\ ranks = <<NewRank>>
    /\ res = NoRes

NextBalanced ==
    \/ call = NoCall /\ DoAnd(MaxCombineArgs)
    \/ call = NoCall /\ DoOr(MaxCombineArgs)
    \/ call = NoCall /\ DoNot
    \/ call = NoCall /\ DoContainsSameElement(SameFields, MaxCombineArgs)
    \/ call = NoCall /\ DoMethodAnd
    \/ call = NoCall /\ DoMethodOr
    \/ qb.sources = <<>> /\ DoFrom(Sources)
    \/ Sourced /\ qb.whereConditions = <<>> /\ DoWhere(Newest)
    \/ Sourced /\ DoAddCondition(MaxRankConditions, Newest)
    \/ Collected /\ DoRank
    \/ DoToYQL(Newest)
    \/ DoRankToYQL
    \/ DoBuildYQL
    \/ DoBuild

SpecBalanced == InitBalanced /\ [][NextBalanced]_vars

\* for the characters a..b of t: `sum`, the number of "(" less the number of
\* ")", and `low`, the least such difference over the prefixes of that stretch
\* (the empty one included); the stretch is halved to keep the recursion flat
RECURSIVE Parens(_, _, _)
Parens(t, a, b) ==
    IF a > b THEN [sum |-> 0, low |-> 0]
    ELSE IF a = b
    THEN CASE SubSeq(t, a, a) = "(" -> [sum |-> 1, low |-> 0]
           [] SubSeq(t, a, a) = ")" -> [sum |-> -1, low |-> -1]
           [] OTHER -> [sum |-> 0, low |-> 0]
    ELSE LET mid == (a + b) \div 2
             l == Parens(t, a, mid)
             r == Parens(t, mid + 1, b)
         IN [sum |-> l.sum + r.sum,
             low |-> IF l.sum + r.low < l.low THEN l.sum + r.low ELSE l.low]

Balanced(t) == Parens(t, 1, Len(t)) = [sum |-> 0, low |-> 0]

\* C30: for every expression tree with non-nil children built from fields,
\* values, labels, index names and custom text without parentheses, the
\* rendered text has balanced parentheses: every prefix has at least as many
\* "(" as ")" and the totals are equal; so have the rank(...) fragment and the
\* whole text of a build.
C30_Balanced ==
    /\ (out.op \in {"ToYQL", "RankExpression.ToYQL"} /\ ~out.panic) => Balanced(out.yql)
    /\ (res.op \in Terminal /\ res.err = <<>> /\ ~res.panic) => Balanced(BuiltYQL)

C30_Witness ==
    /\ heap[Len(heap)] = [kind |-> "BooleanCondition", Left |-> 3, Right |-> 5,
                          Operator |-> "OR"]
    /\ qb.whereConditions = <<Len(heap)>>
    /\ qb.rankExpression = 1
    /\ ranks[1].conditions = <<Len(heap)>>
    /\ out.op = "RankExpression.ToYQL" /\ ~out.panic
    /\ res.op = "Build" /\ res.err = <<>> /\ ~res.panic
    /\ BuiltYQL = "select * from sources products where " \o ToYQL(heap, Len(heap))
                     \o " and " \o out.yql
    /\ out.yql = "rank(" \o "(({targetHits:10,label:'main',approximate:false}"
                    \o "nearestNeighbor(embedding, query_vector)) OR "
                    \o "!(((price >= 10) and (price <= 100.5))))" \o ")"

====
